---- MODULE Spec2Model ----
(***************************************************************************)
(* Verification model of the internal audio/MIDI routing engine:           *)
(*   - CarlaEngineJuce   (driver facade, MIDI-in staging, audio callback)  *)
(*   - RackGraph         (fixed six-port topology)                         *)
(*   - PatchbayGraph     (general processing graph)                        *)
(*   - EngineInternalGraph (graph holder, isReady flag)                    *)
(* Four specifications share this module:                                  *)
(*   Spec       control-thread topology calls (Rack or Patchbay)           *)
(*   SpecBlock  one Rack audio block as a function of its inputs           *)
(*   SpecDrain  the MIDI-in drain as a function of the queued events       *)
(*   SpecRT     audio thread / MIDI producer / control thread interleaving *)
(***************************************************************************)
EXTENDS Integers, Sequences, FiniteSets, TLC

(***************************************************************************)
(* Bounds of the model                                                     *)
(***************************************************************************)
\* device audio input / output channel counts handed to graph.create()
Inputs == 2
Outputs == 2
\* cap on the ConnectionId counter
MaxId == 2
\* cap on the ConnectionId counter for the ids a patchbay refresh hands out
MaxRefreshedId == 6
\* cap on the number of patchbayRefresh calls after engine init
MaxRefresh == 1
\* cap on the number of plugin nodes a patchbay creates over its lifetime
MaxNodes == 2
\* frames of one audio block
BlockFrames == 2
\* largest sample value the device delivers (samples are integers from 0)
MaxSample == 1
\* longest plugin chain of the rack
MaxChain == 2
\* size of the per-block event buffers events.in / events.out
kMaxEngineEventInternalCount == 2
\* elements of the pool the two MIDI-in staging lists share
PoolSize == 3
\* cap on the number of MIDI messages the driver delivers
MaxEvents == 4
\* largest time stamp of a queued MIDI event
MaxTime == 3
\* largest frame base (pData->timeInfo.frame) of a block
MaxFrame == 2

(***************************************************************************)
(* Program constants                                                       *)
(***************************************************************************)
RACK_GRAPH_GROUP_CARLA == 1
RACK_GRAPH_GROUP_AUDIO_IN == 2
RACK_GRAPH_GROUP_AUDIO_OUT == 3
RACK_GRAPH_GROUP_MIDI_IN == 4
RACK_GRAPH_GROUP_MIDI_OUT == 5
RACK_GRAPH_GROUP_MAX == 6

RACK_GRAPH_CARLA_PORT_NULL == 0
RACK_GRAPH_CARLA_PORT_AUDIO_IN1 == 1
RACK_GRAPH_CARLA_PORT_AUDIO_IN2 == 2
RACK_GRAPH_CARLA_PORT_AUDIO_OUT1 == 3
RACK_GRAPH_CARLA_PORT_AUDIO_OUT2 == 4
RACK_GRAPH_CARLA_PORT_MIDI_IN == 5
RACK_GRAPH_CARLA_PORT_MIDI_OUT == 6
RACK_GRAPH_CARLA_PORT_MAX == 7

MAX_PATCHBAY_PLUGINS == 255
\* AudioProcessorGraph::midiChannelIndex, the sentinel channel of MIDI edges
kMidiChannelIndex == 4096

\* MidiInput::getDevices() / MidiOutput::getDevices() of the driver
MidiInDevices == <<"in_a">>
MidiOutDevices == <<"out_a">>

VARIABLES
    \* ---- engine / graph holder
    isRack,          \* EngineInternalGraph::fIsRack
    \* ---- connection registry (RackGraph::connections / PatchbayGraph::connections)
    connList,        \* connections.list, in insertion order
    lastId,          \* connections.lastId
    \* ---- RackGraph::audio
    connectedIn1, connectedIn2, connectedOut1, connectedOut2,
    \* ---- RackGraph::midi (PortNameToId tables)
    midiIns, midiOuts,
    \* ---- CarlaEngineJuce open device MIDI ports (names)
    fMidiIns, fMidiOuts,
    \* ---- observation of the last API call
    lastOp,          \* [op, ok, id, found, err]: the call, its return value, the id it
                     \* issued or removed, whether the id it named was in the registry
                     \* (for a connect: whether a connection vector refused the port),
                     \* (for a patchbay refresh the id is 1 when the call before it was
                     \* a refresh too),
                     \* and the string it handed to setLastError ("" when it set none)
    callbacks,       \* host callbacks fired by the last call, in order
    issued,          \* ids handed out by successful connect calls, in call order
    plainSeq,        \* TRUE while only connect/disconnect were called since init
    \* ---- PatchbayGraph
    nodes,           \* graph nodes: nodeId -> [isPlugin, pluginId, numIns, numOuts, acceptsMidi, producesMidi]
    lastNodeId,      \* id counter of the underlying graph
    edges,           \* connections of the underlying graph: <<srcNode, srcChan, dstNode, dstChan>>
    plugins,         \* engine plugin table: plugins[i+1] is the plugin with id i, [nodeId, shape]
    ignorePathbay,   \* PatchbayGraph::ignorePathbay
    \* ---- one audio block of the rack
    deviceIn,        \* inputChannelData: channel index (from 0) -> samples of the block
    deviceOut,       \* outputChannelData after the block, likewise
    rackPlugins,     \* data->plugins: [kind, enabled, lockable] in registration order
    eventsIn,        \* data->events.in (the non-null events)
    eventsOut,       \* data->events.out
    peaks,           \* per plugin [ins, outs]: insPeak / outsPeak of both channels
    blockPc,         \* position of the audio thread in audioDeviceIOCallback
    \* ---- state shared between the audio thread and the other threads
    fIsReady,        \* EngineInternalGraph::fIsReady
    audioBufs,       \* RackGraph::audio.inBuf/outBuf: "allocated" or "freed" (nullptr);
                     \* "none" while fRack == nullptr, when there is no graph to hold them
    bufsTorn,        \* the buffers were deleted while processHelper was using them
    dataPending,     \* fMidiInEvents.dataPending: RtMidiEvents in arrival order
    stagingMutex,    \* holder of fMidiInEvents.mutex: "free" or "producer"
    audioMutex,      \* holder of RackGraph::audio.mutex: "free", "control" or "audio"
    midiOutMutex,    \* holder of fMidiOutMutex: "free" or "control"
    timeFrame,       \* pData->timeInfo.frame
    produced,        \* number of MIDI messages the driver has delivered
    ctlPc,           \* the control thread's call in progress: [op, args]
    skippedWith      \* data of the events that were queued when a tryLock failed

rackVars == <<connectedIn1, connectedIn2, connectedOut1, connectedOut2,
              midiIns, midiOuts, fMidiIns, fMidiOuts>>
regVars == <<connList, lastId>>
obsVars == <<lastOp, callbacks, issued, plainSeq>>
pbVars == <<nodes, lastNodeId, edges, plugins, ignorePathbay>>
topoVars == <<isRack, regVars, rackVars, obsVars, pbVars>>

blockVars == <<deviceIn, deviceOut, rackPlugins, eventsIn, eventsOut, peaks, blockPc>>

rtVars == <<fIsReady, audioBufs, bufsTorn, dataPending, stagingMutex, audioMutex,
            midiOutMutex, timeFrame, produced, ctlPc, skippedWith>>

vars == <<topoVars, blockVars, rtVars>>

(***************************************************************************)
(* Helpers                                                                 *)
(***************************************************************************)
Range(s) == {s[i] : i \in 1..Len(s)}

Contains(s, v) == \E i \in 1..Len(s) : s[i] = v

\* index of the first element equal to v (0 when absent)
FirstIndex(s, v) ==
    IF Contains(s, v) THEN CHOOSE i \in 1..Len(s) : s[i] = v /\ \A j \in 1..(i-1) : s[j] # v
    ELSE 0

RemoveAt(s, i) == [j \in 1..(Len(s)-1) |-> IF j < i THEN s[j] ELSE s[j+1]]

\* LinkedList<uint>::append as the connection vectors use it: a value already
\* in the list is rejected
ListAppend(list, v) ==
    IF Contains(list, v) THEN [ok |-> FALSE, list |-> list]
    ELSE [ok |-> TRUE, list |-> Append(list, v)]

\* LinkedList<T>::removeOne: removes the first element equal to v
ListRemoveOne(list, v) ==
    IF Contains(list, v) THEN [ok |-> TRUE, list |-> RemoveAt(list, FirstIndex(list, v))]
    ELSE [ok |-> FALSE, list |-> list]

ConnectionToId(id, gA, pA, gB, pB) ==
    [id |-> id, groupA |-> gA, portA |-> pA, groupB |-> gB, portB |-> pB]

\* "%u:%u:%u:%u" payload of PatchbayConnectionAdded
Payload(gA, pA, gB, pB) == <<gA, pA, gB, pB>>

CbConnAdded(id, gA, pA, gB, pB) ==
    [op |-> "ConnectionAdded", id |-> id, payload |-> Payload(gA, pA, gB, pB)]
CbConnRemoved(id) ==
    [op |-> "ConnectionRemoved", id |-> id, payload |-> <<>>]
CbOther(name, g) ==
    [op |-> name, id |-> g, payload |-> <<>>]

\* a connect that hands out the counter without advancing it
NextIdNoIncrement(id) == id

\* ++connections.lastId; the counter is 32 bits wide and MaxId keeps it far
\* below the wrap
NextId(id) == id + 1

OpRec(op, ok, id, found, err) ==
    [op |-> op, ok |-> ok, id |-> id, found |-> found, err |-> err]

(***************************************************************************)
(* RackGraph::MIDI                                                         *)
(***************************************************************************)
PortNameToId(g, p, name) == [group |-> g, port |-> p, name |-> name]

\* RackGraph::MIDI::getName: "" stands for nullptr
MidiGetName(table, portId) ==
    IF \E i \in 1..Len(table) : table[i].port = portId
    THEN table[CHOOSE i \in 1..Len(table) :
                  table[i].port = portId /\ \A j \in 1..(i-1) : table[j].port # portId].name
    ELSE ""

\* RackGraph::MIDI::getPortId
MidiGetPortId(table, name) ==
    IF \E i \in 1..Len(table) : table[i].name = name
    THEN [ok |-> TRUE,
          port |-> table[CHOOSE i \in 1..Len(table) :
                  table[i].name = name /\ \A j \in 1..(i-1) : table[j].name # name].port]
    ELSE [ok |-> FALSE, port |-> 0]

(***************************************************************************)
(* CarlaEngineJuce: device MIDI port connection                            *)
(***************************************************************************)
\* a connectRackMidiInPort that has put the port in fMidiIns when it fails
ConnectRackMidiInPortKeepsPort(portName) ==
    [ok |-> ~(portName = "" \/ Len(midiIns) = 0 \/ ~Contains(MidiInDevices, portName)),
     ports |-> Append(fMidiIns, portName)]

\* connectRackMidiInPort: result and the new fMidiIns
ConnectRackMidiInPort(portName) ==
    IF portName = "" \/ Len(midiIns) = 0 \/ ~Contains(MidiInDevices, portName)
    THEN [ok |-> FALSE, ports |-> fMidiIns]
    ELSE [ok |-> TRUE, ports |-> Append(fMidiIns, portName)]

\* connectRackMidiOutPort: the guard reads graph->midi.ins, as the code does
ConnectRackMidiOutPort(portName) ==
    IF portName = "" \/ Len(midiIns) = 0 \/ ~Contains(MidiOutDevices, portName)
    THEN [ok |-> FALSE, ports |-> fMidiOuts]
    ELSE [ok |-> TRUE, ports |-> Append(fMidiOuts, portName)]

DisconnectRackMidiInPort(portName) ==
    IF portName = "" \/ Len(midiIns) = 0 \/ ~Contains(fMidiIns, portName)
    THEN [ok |-> FALSE, ports |-> fMidiIns]
    ELSE [ok |-> TRUE, ports |-> RemoveAt(fMidiIns, FirstIndex(fMidiIns, portName))]

DisconnectRackMidiOutPort(portName) ==
    IF portName = "" \/ Len(midiOuts) = 0 \/ ~Contains(fMidiOuts, portName)
    THEN [ok |-> FALSE, ports |-> fMidiOuts]
    ELSE [ok |-> TRUE, ports |-> RemoveAt(fMidiOuts, FirstIndex(fMidiOuts, portName))]

(***************************************************************************)
(* RackGraph::connect / disconnect                                         *)
(***************************************************************************)
\* which endpoint is the Carla one (the group asserts of connect/disconnect)
RackSplit(gA, pA, gB, pB) ==
    IF gA = RACK_GRAPH_GROUP_CARLA
    THEN [ok |-> gB # RACK_GRAPH_GROUP_CARLA,
          carlaPort |-> pA, otherGroup |-> gB, otherPort |-> pB]
    ELSE [ok |-> gB = RACK_GRAPH_GROUP_CARLA,
          carlaPort |-> pB, otherGroup |-> gA, otherPort |-> pA]

RackEndpointsInRange(s) ==
    /\ s.carlaPort > RACK_GRAPH_CARLA_PORT_NULL /\ s.carlaPort < RACK_GRAPH_CARLA_PORT_MAX
    /\ s.otherGroup > RACK_GRAPH_GROUP_CARLA /\ s.otherGroup < RACK_GRAPH_GROUP_MAX

\* connect with the audio-input and audio-output groups exchanged
RackExpectedGroupSwapped(carlaPort) ==
    CASE carlaPort \in {RACK_GRAPH_CARLA_PORT_AUDIO_IN1, RACK_GRAPH_CARLA_PORT_AUDIO_IN2}
            -> RACK_GRAPH_GROUP_AUDIO_OUT
      [] carlaPort \in {RACK_GRAPH_CARLA_PORT_AUDIO_OUT1, RACK_GRAPH_CARLA_PORT_AUDIO_OUT2}
            -> RACK_GRAPH_GROUP_AUDIO_IN
      [] carlaPort = RACK_GRAPH_CARLA_PORT_MIDI_IN -> RACK_GRAPH_GROUP_MIDI_IN
      [] carlaPort = RACK_GRAPH_CARLA_PORT_MIDI_OUT -> RACK_GRAPH_GROUP_MIDI_OUT
      [] OTHER -> 0

\* the group each case of the switch in connect asserts
RackExpectedGroup(carlaPort) ==
    CASE carlaPort \in {RACK_GRAPH_CARLA_PORT_AUDIO_IN1, RACK_GRAPH_CARLA_PORT_AUDIO_IN2}
            -> RACK_GRAPH_GROUP_AUDIO_IN
      [] carlaPort \in {RACK_GRAPH_CARLA_PORT_AUDIO_OUT1, RACK_GRAPH_CARLA_PORT_AUDIO_OUT2}
            -> RACK_GRAPH_GROUP_AUDIO_OUT
      [] carlaPort = RACK_GRAPH_CARLA_PORT_MIDI_IN -> RACK_GRAPH_GROUP_MIDI_IN
      [] carlaPort = RACK_GRAPH_CARLA_PORT_MIDI_OUT -> RACK_GRAPH_GROUP_MIDI_OUT
      [] OTHER -> 0

\* the rack's connection state as one record
RackState ==
    [in1 |-> connectedIn1, in2 |-> connectedIn2, out1 |-> connectedOut1,
     out2 |-> connectedOut2, fIns |-> fMidiIns, fOuts |-> fMidiOuts]

\* the Carla ports whose connections are kept in a connection vector
RackIsAudioPort(carlaPort) ==
    carlaPort \in RACK_GRAPH_CARLA_PORT_AUDIO_IN1..RACK_GRAPH_CARLA_PORT_AUDIO_OUT2

\* a connect that appends to the vector whatever it holds and reports success
RackMakeConnectionAlways(carlaPort, otherPort) ==
    LET st == RackState IN
    CASE carlaPort = RACK_GRAPH_CARLA_PORT_AUDIO_IN1 ->
            [ok |-> TRUE, st |-> [st EXCEPT !.in1 = Append(connectedIn1, otherPort)]]
      [] carlaPort = RACK_GRAPH_CARLA_PORT_AUDIO_IN2 ->
            [ok |-> TRUE, st |-> [st EXCEPT !.in2 = Append(connectedIn2, otherPort)]]
      [] carlaPort = RACK_GRAPH_CARLA_PORT_AUDIO_OUT1 ->
            [ok |-> TRUE, st |-> [st EXCEPT !.out1 = Append(connectedOut1, otherPort)]]
      [] carlaPort = RACK_GRAPH_CARLA_PORT_AUDIO_OUT2 ->
            [ok |-> TRUE, st |-> [st EXCEPT !.out2 = Append(connectedOut2, otherPort)]]
      [] OTHER -> [ok |-> TRUE, st |-> st]

\* the switch of RackGraph::connect: makeConnection and the state it leaves
RackMakeConnection(carlaPort, otherPort) ==
    LET st == RackState IN
    CASE carlaPort = RACK_GRAPH_CARLA_PORT_AUDIO_IN1 ->
            LET r == ListAppend(connectedIn1, otherPort)
            IN [ok |-> r.ok, st |-> [st EXCEPT !.in1 = r.list]]
      [] carlaPort = RACK_GRAPH_CARLA_PORT_AUDIO_IN2 ->
            LET r == ListAppend(connectedIn2, otherPort)
            IN [ok |-> r.ok, st |-> [st EXCEPT !.in2 = r.list]]
      [] carlaPort = RACK_GRAPH_CARLA_PORT_AUDIO_OUT1 ->
            LET r == ListAppend(connectedOut1, otherPort)
            IN [ok |-> r.ok, st |-> [st EXCEPT !.out1 = r.list]]
      [] carlaPort = RACK_GRAPH_CARLA_PORT_AUDIO_OUT2 ->
            LET r == ListAppend(connectedOut2, otherPort)
            IN [ok |-> r.ok, st |-> [st EXCEPT !.out2 = r.list]]
      [] carlaPort = RACK_GRAPH_CARLA_PORT_MIDI_IN ->
            LET r == ConnectRackMidiInPort(MidiGetName(midiIns, otherPort))
            IN [ok |-> r.ok, st |-> [st EXCEPT !.fIns = r.ports]]
      [] carlaPort = RACK_GRAPH_CARLA_PORT_MIDI_OUT ->
            LET r == ConnectRackMidiOutPort(MidiGetName(midiOuts, otherPort))
            IN [ok |-> r.ok, st |-> [st EXCEPT !.fOuts = r.ports]]
      [] OTHER -> [ok |-> FALSE, st |-> st]

\* a disconnect that reports success and leaves the port where it was
RackMakeDisconnectionKeepsPort(carlaPort, otherPort) ==
    [ok |-> TRUE, st |-> RackState]

\* the switch of RackGraph::disconnect
RackMakeDisconnection(carlaPort, otherPort) ==
    LET st == RackState IN
    CASE carlaPort = RACK_GRAPH_CARLA_PORT_AUDIO_IN1 ->
            LET r == ListRemoveOne(connectedIn1, otherPort)
            IN [ok |-> r.ok, st |-> [st EXCEPT !.in1 = r.list]]
      [] carlaPort = RACK_GRAPH_CARLA_PORT_AUDIO_IN2 ->
            LET r == ListRemoveOne(connectedIn2, otherPort)
            IN [ok |-> r.ok, st |-> [st EXCEPT !.in2 = r.list]]
      [] carlaPort = RACK_GRAPH_CARLA_PORT_AUDIO_OUT1 ->
            LET r == ListRemoveOne(connectedOut1, otherPort)
            IN [ok |-> r.ok, st |-> [st EXCEPT !.out1 = r.list]]
      [] carlaPort = RACK_GRAPH_CARLA_PORT_AUDIO_OUT2 ->
            LET r == ListRemoveOne(connectedOut2, otherPort)
            IN [ok |-> r.ok, st |-> [st EXCEPT !.out2 = r.list]]
      [] carlaPort = RACK_GRAPH_CARLA_PORT_MIDI_IN ->
            LET r == DisconnectRackMidiInPort(MidiGetName(midiIns, otherPort))
            IN [ok |-> r.ok, st |-> [st EXCEPT !.fIns = r.ports]]
      [] carlaPort = RACK_GRAPH_CARLA_PORT_MIDI_OUT ->
            LET r == DisconnectRackMidiOutPort(MidiGetName(midiOuts, otherPort))
            IN [ok |-> r.ok, st |-> [st EXCEPT !.fOuts = r.ports]]
      [] OTHER -> [ok |-> FALSE, st |-> st]

SetRackState(st) ==
    /\ connectedIn1' = st.in1 /\ connectedIn2' = st.in2
    /\ connectedOut1' = st.out1 /\ connectedOut2' = st.out2
    /\ fMidiIns' = st.fIns /\ fMidiOuts' = st.fOuts

\* a call that returns false through CARLA_SAFE_ASSERT_RETURN: nothing changes,
\* no error is set
AssertReturn(op, id) ==
    /\ lastOp' = OpRec(op, FALSE, id, FALSE, "")
    /\ callbacks' = <<>>
    /\ UNCHANGED <<isRack, regVars, rackVars, issued, plainSeq, pbVars>>

\* a call that returns false after engine->setLastError(msg)
ErrorReturn(op, id, found, msg) ==
    /\ lastOp' = OpRec(op, FALSE, id, found, msg)
    /\ callbacks' = <<>>
    /\ UNCHANGED <<isRack, regVars, rackVars, issued, plainSeq, pbVars>>

\* the switch of connect / disconnect left makeConnection / makeDisconnection
\* false: the rack is as the switch left it, the error is set, nothing is
\* registered or removed
SwitchFailedReturn(op, found) ==
    /\ lastOp' = OpRec(op, FALSE, 0, found, "Invalid rack connection")
    /\ callbacks' = <<>>
    /\ UNCHANGED <<isRack, regVars, midiIns, midiOuts, issued, plainSeq, pbVars>>

SwitchFailed(st, op, found) ==
    /\ SetRackState(st)
    /\ SwitchFailedReturn(op, found)

\* the end of RackGraph::connect after makeConnection came out true: the id,
\* the callback and the registry entry
RackRegister(gA, pA, gB, pB) ==
    /\ lastId < MaxId
    /\ lastId' = NextId(lastId)
    /\ connList' = Append(connList, ConnectionToId(lastId', gA, pA, gB, pB))
    /\ callbacks' = <<CbConnAdded(lastId', gA, pA, gB, pB)>>
    /\ lastOp' = OpRec("connect", TRUE, lastId', FALSE, "")
    /\ issued' = Append(issued, lastId')
    /\ UNCHANGED <<isRack, midiIns, midiOuts, plainSeq, pbVars>>

RackConnect(gA, pA, gB, pB) ==
    /\ isRack
    /\ LET s == RackSplit(gA, pA, gB, pB) IN
       IF ~s.ok \/ ~RackEndpointsInRange(s) \/ s.otherGroup # RackExpectedGroup(s.carlaPort)
       THEN AssertReturn("connect", 0)
       ELSE LET m == RackMakeConnection(s.carlaPort, s.otherPort) IN
            IF ~m.ok
            THEN SwitchFailed(m.st, "connect", RackIsAudioPort(s.carlaPort))
            ELSE /\ SetRackState(m.st)
                 /\ RackRegister(gA, pA, gB, pB)

\* index in the registry of the first entry with this id (0 when absent)
FindConnection(id) ==
    IF \E i \in 1..Len(connList) : connList[i].id = id
    THEN CHOOSE i \in 1..Len(connList) :
            connList[i].id = id /\ \A j \in 1..(i-1) : connList[j].id # id
    ELSE 0

\* a disconnect that tells the host but keeps the registry entry
RackUnregisterKeepsEntry(i, connectionId) ==
    /\ callbacks' = <<CbConnRemoved(connList[i].id)>>
    /\ lastOp' = OpRec("disconnect", TRUE, connectionId, TRUE, "")
    /\ UNCHANGED <<isRack, regVars, midiIns, midiOuts, issued, plainSeq, pbVars>>

\* the end of RackGraph::disconnect after makeDisconnection came out true:
\* the callback and the removal of entry i
RackUnregister(i, connectionId) ==
    /\ connList' = RemoveAt(connList, i)
    /\ callbacks' = <<CbConnRemoved(connList[i].id)>>
    /\ lastOp' = OpRec("disconnect", TRUE, connectionId, TRUE, "")
    /\ UNCHANGED <<isRack, lastId, midiIns, midiOuts, issued, plainSeq, pbVars>>

RackDisconnect(connectionId) ==
    /\ isRack
    /\ IF Len(connList) = 0
       THEN AssertReturn("disconnect", 0)
       ELSE LET i == FindConnection(connectionId) IN
            IF i = 0
            THEN ErrorReturn("disconnect", 0, FALSE, "Failed to find connection")
            ELSE LET c == connList[i]
                     s == RackSplit(c.groupA, c.portA, c.groupB, c.portB)
                 IN IF ~s.ok \/ ~RackEndpointsInRange(s)
                    THEN /\ AssertReturn("disconnect", 0)
                    ELSE LET m == RackMakeDisconnection(s.carlaPort, s.otherPort) IN
                         IF ~m.ok
                         THEN SwitchFailed(m.st, "disconnect", TRUE)
                         ELSE /\ SetRackState(m.st)
                              /\ RackUnregister(i, connectionId)

(***************************************************************************)
(* CarlaEngineJuce::patchbayRefreshRack                                    *)
(***************************************************************************)
\* the PortNameToId entries one refresh appends for a device list
DevicePorts(group, devices) ==
    [i \in 1..Len(devices) |-> PortNameToId(group, i, devices[i])]

\* endpoints rebuilt from one audio connection vector
AudioInEndpoints(list, carlaPort) ==
    [i \in 1..Len(list) |->
        <<RACK_GRAPH_GROUP_AUDIO_IN, list[i], RACK_GRAPH_GROUP_CARLA, carlaPort>>]
AudioOutEndpoints(list, carlaPort) ==
    [i \in 1..Len(list) |->
        <<RACK_GRAPH_GROUP_CARLA, carlaPort, RACK_GRAPH_GROUP_AUDIO_OUT, list[i]>>]

\* endpoints rebuilt from the open device MIDI ports: a port whose id is not
\* below the table's count is skipped (CARLA_SAFE_ASSERT_CONTINUE)
MidiInEndpoints(table) ==
    LET ids == [i \in 1..Len(fMidiIns) |-> MidiGetPortId(table, fMidiIns[i]).port]
        Keep(p) == p < Len(table)
        kept == SelectSeq(ids, Keep)
    IN [i \in 1..Len(kept) |->
        <<RACK_GRAPH_GROUP_MIDI_IN, kept[i], RACK_GRAPH_GROUP_CARLA, RACK_GRAPH_CARLA_PORT_MIDI_IN>>]
MidiOutEndpoints(table) ==
    LET ids == [i \in 1..Len(fMidiOuts) |-> MidiGetPortId(table, fMidiOuts[i]).port]
        Keep(p) == p < Len(table)
        kept == SelectSeq(ids, Keep)
    IN [i \in 1..Len(kept) |->
        <<RACK_GRAPH_GROUP_CARLA, RACK_GRAPH_CARLA_PORT_MIDI_OUT, RACK_GRAPH_GROUP_MIDI_OUT, kept[i]>>]

\* all endpoints of one refresh, in the order the code walks them
RackRefreshEndpoints(tIns, tOuts) ==
    AudioInEndpoints(connectedIn1, RACK_GRAPH_CARLA_PORT_AUDIO_IN1)
    \o AudioInEndpoints(connectedIn2, RACK_GRAPH_CARLA_PORT_AUDIO_IN2)
    \o AudioOutEndpoints(connectedOut1, RACK_GRAPH_CARLA_PORT_AUDIO_OUT1)
    \o AudioOutEndpoints(connectedOut2, RACK_GRAPH_CARLA_PORT_AUDIO_OUT2)
    \o MidiInEndpoints(tIns)
    \o MidiOutEndpoints(tOuts)

\* ids are taken from ++lastId, one per endpoint
WithIds(endpoints, base) ==
    [k \in 1..Len(endpoints) |->
        ConnectionToId(base + k,
                       endpoints[k][1], endpoints[k][2], endpoints[k][3], endpoints[k][4])]

AddedCallbacks(entries) ==
    [k \in 1..Len(entries) |->
        CbConnAdded(entries[k].id, entries[k].groupA, entries[k].portA,
                    entries[k].groupB, entries[k].portB)]

\* client / port announcements of the rack
RackAnnouncements(devIns, devOuts) ==
    <<CbOther("ClientAdded", RACK_GRAPH_GROUP_CARLA)>>
    \o [i \in 1..6 |-> CbOther("PortAdded", RACK_GRAPH_GROUP_CARLA)]
    \o <<CbOther("ClientAdded", RACK_GRAPH_GROUP_AUDIO_IN)>>
    \o [i \in 1..Inputs |-> CbOther("PortAdded", RACK_GRAPH_GROUP_AUDIO_IN)]
    \o <<CbOther("ClientAdded", RACK_GRAPH_GROUP_AUDIO_OUT)>>
    \o [i \in 1..Outputs |-> CbOther("PortAdded", RACK_GRAPH_GROUP_AUDIO_OUT)]
    \o <<CbOther("ClientAdded", RACK_GRAPH_GROUP_MIDI_IN)>>
    \o [i \in 1..Len(devIns) |-> CbOther("PortAdded", RACK_GRAPH_GROUP_MIDI_IN)]
    \o <<CbOther("ClientAdded", RACK_GRAPH_GROUP_MIDI_OUT)>>
    \o [i \in 1..Len(devOuts) |-> CbOther("PortAdded", RACK_GRAPH_GROUP_MIDI_OUT)]

\* a clear that also resets the counter
ClearedLastIdZero(id) == 0

\* ConnectionList::clear: the list is emptied, lastId is kept
ClearedLastId(id) == id

\* what MidiInput::getDevices() and MidiOutput::getDevices() can answer when a
\* refresh asks: the driver's devices, or nothing once they are unplugged
DeviceLists ==
    {[ins |-> MidiInDevices, outs |-> MidiOutDevices], [ins |-> <<>>, outs |-> <<>>]}

\* CarlaEngineJuce::patchbayRefresh on a rack: the argument is not looked at;
\* devs is what the driver lists at the time of the call
PatchbayRefreshRack(external, devs) ==
    /\ isRack
    /\ Len(devs.ins) > 0 => Len(midiIns) < (MaxRefresh + 1) * Len(MidiInDevices)
    /\ LET tIns == midiIns \o DevicePorts(RACK_GRAPH_GROUP_MIDI_IN, devs.ins)
           tOuts == midiOuts \o DevicePorts(RACK_GRAPH_GROUP_MIDI_OUT, devs.outs)
           entries == WithIds(RackRefreshEndpoints(tIns, tOuts), ClearedLastId(lastId))
       IN /\ ClearedLastId(lastId) + Len(entries) <= MaxId
          /\ midiIns' = tIns
          /\ midiOuts' = tOuts
          /\ connList' = entries
          /\ lastId' = ClearedLastId(lastId) + Len(entries)
          /\ callbacks' = RackAnnouncements(devs.ins, devs.outs) \o AddedCallbacks(entries)
    /\ lastOp' = OpRec("refresh", TRUE, 0, external, "")
    /\ plainSeq' = FALSE
    /\ UNCHANGED <<isRack, connectedIn1, connectedIn2, connectedOut1,
                   connectedOut2, fMidiIns, fMidiOuts, issued, pbVars>>

(***************************************************************************)
(* Port names: RackGraph::getConnections                                   *)
(***************************************************************************)
\* decimal digits of n, as snprintf("%i") writes them
RECURSIVE Digits(_)
Digits(n) ==
    LET d == <<"0", "1", "2", "3", "4", "5", "6", "7", "8", "9">>
    IN IF n < 10 THEN <<d[n + 1]>> ELSE Digits(n \div 10) \o <<d[(n % 10) + 1]>>

getCarlaRackFullPortNameFromId(portId) ==
    CASE portId = RACK_GRAPH_CARLA_PORT_AUDIO_IN1 -> <<"Carla:", "AudioIn1">>
      [] portId = RACK_GRAPH_CARLA_PORT_AUDIO_IN2 -> <<"Carla:", "AudioIn2">>
      [] portId = RACK_GRAPH_CARLA_PORT_AUDIO_OUT1 -> <<"Carla:", "AudioOut1">>
      [] portId = RACK_GRAPH_CARLA_PORT_AUDIO_OUT2 -> <<"Carla:", "AudioOut2">>
      [] portId = RACK_GRAPH_CARLA_PORT_MIDI_IN -> <<"Carla:", "MidiIn">>
      [] portId = RACK_GRAPH_CARLA_PORT_MIDI_OUT -> <<"Carla:", "MidiOut">>
      [] OTHER -> <<>>

\* the (source, target) names getConnections emits for one registry entry
RackConnectionNames(c) ==
    LET s == RackSplit(c.groupA, c.portA, c.groupB, c.portB)
        carla == getCarlaRackFullPortNameFromId(s.carlaPort)
    IN IF c.id = 0 \/ ~s.ok \/ ~RackEndpointsInRange(s) THEN <<>>
       ELSE CASE s.carlaPort \in {RACK_GRAPH_CARLA_PORT_AUDIO_IN1, RACK_GRAPH_CARLA_PORT_AUDIO_IN2}
                    -> << <<"AudioIn:">> \o Digits(s.otherPort), carla >>
              [] s.carlaPort \in {RACK_GRAPH_CARLA_PORT_AUDIO_OUT1, RACK_GRAPH_CARLA_PORT_AUDIO_OUT2}
                    -> << carla, <<"AudioOut:">> \o Digits(s.otherPort) >>
              [] s.carlaPort = RACK_GRAPH_CARLA_PORT_MIDI_IN
                    -> << <<"MidiIn:", MidiGetName(midiIns, s.otherPort)>>, carla >>
              [] s.carlaPort = RACK_GRAPH_CARLA_PORT_MIDI_OUT
                    -> << carla, <<"MidiOut:", MidiGetName(midiOuts, s.otherPort)>> >>

RECURSIVE RackNamesOf(_)
RackNamesOf(list) ==
    IF Len(list) = 0 THEN <<>>
    ELSE RackConnectionNames(Head(list)) \o RackNamesOf(Tail(list))

\* RackGraph::getConnections: <<>> stands for nullptr
RackGetConnections == RackNamesOf(connList)

(***************************************************************************)
(* Port names: RackGraph::getGroupAndPortIdFromFullName                    *)
(***************************************************************************)
\* std::atoi on the digits that follow the group prefix; no digits give 0
RECURSIVE AtoiFrom(_, _)
AtoiFrom(chars, acc) ==
    LET d == <<"0", "1", "2", "3", "4", "5", "6", "7", "8", "9">>
    IN IF Len(chars) = 0 \/ ~(\E k \in 1..10 : d[k] = Head(chars)) THEN acc
       ELSE AtoiFrom(Tail(chars), acc * 10 + (CHOOSE k \in 1..10 : d[k] = Head(chars)) - 1)
atoi(chars) == AtoiFrom(chars, 0)

getCarlaRackPortIdFromName(shortname) ==
    CASE shortname \in {"AudioIn1", "audio-in1"} -> RACK_GRAPH_CARLA_PORT_AUDIO_IN1
      [] shortname \in {"AudioIn2", "audio-in2"} -> RACK_GRAPH_CARLA_PORT_AUDIO_IN2
      [] shortname \in {"AudioOut1", "audio-out1"} -> RACK_GRAPH_CARLA_PORT_AUDIO_OUT1
      [] shortname \in {"AudioOut2", "audio-out2"} -> RACK_GRAPH_CARLA_PORT_AUDIO_OUT2
      [] shortname \in {"MidiIn", "midi-in"} -> RACK_GRAPH_CARLA_PORT_MIDI_IN
      [] shortname \in {"MidiOut", "midi-out"} -> RACK_GRAPH_CARLA_PORT_MIDI_OUT
      [] OTHER -> RACK_GRAPH_CARLA_PORT_NULL

\* the return value, groupId and portId; a full port name is its group prefix
\* followed by the rest of the string
getGroupAndPortIdFromFullName(fullPortName) ==
    LET rest == Tail(fullPortName)
        short == IF Len(rest) = 0 THEN "" ELSE rest[1]
        No(g) == [ok |-> FALSE, group |-> g, port |-> 0]
    IN IF Len(fullPortName) = 0 THEN No(0)
       ELSE CASE fullPortName[1] = "Carla:" ->
                    LET portId == getCarlaRackPortIdFromName(short)
                    IN [ok |-> portId > RACK_GRAPH_CARLA_PORT_NULL
                                /\ portId < RACK_GRAPH_CARLA_PORT_MAX,
                        group |-> RACK_GRAPH_GROUP_CARLA, port |-> portId]
              [] fullPortName[1] = "AudioIn:" ->
                    IF atoi(rest) # 0
                    THEN [ok |-> TRUE, group |-> RACK_GRAPH_GROUP_AUDIO_IN, port |-> atoi(rest)]
                    ELSE No(RACK_GRAPH_GROUP_AUDIO_IN)
              [] fullPortName[1] = "AudioOut:" ->
                    IF atoi(rest) # 0
                    THEN [ok |-> TRUE, group |-> RACK_GRAPH_GROUP_AUDIO_OUT, port |-> atoi(rest)]
                    ELSE No(RACK_GRAPH_GROUP_AUDIO_OUT)
              [] fullPortName[1] = "MidiIn:" ->
                    LET r == MidiGetPortId(midiIns, short)
                    IN [ok |-> r.ok, group |-> RACK_GRAPH_GROUP_MIDI_IN, port |-> r.port]
              [] fullPortName[1] = "MidiOut:" ->
                    LET r == MidiGetPortId(midiOuts, short)
                    IN [ok |-> r.ok, group |-> RACK_GRAPH_GROUP_MIDI_OUT, port |-> r.port]
              [] OTHER -> No(0)

(***************************************************************************)
(* Patchbay port id encoding                                               *)
(***************************************************************************)
kAudioInputPortOffset == MAX_PATCHBAY_PLUGINS * 1
kAudioOutputPortOffset == MAX_PATCHBAY_PLUGINS * 2
kMidiInputPortOffset == MAX_PATCHBAY_PLUGINS * 3
kMidiOutputPortOffset == MAX_PATCHBAY_PLUGINS * 3 + 1

\* adjustPatchbayPortIdForJuce: the return value and the rewritten port id
adjustPatchbayPortIdForJuce(portId) ==
    IF portId < kAudioInputPortOffset \/ portId > kMidiOutputPortOffset
    THEN [ok |-> FALSE, port |-> portId]
    ELSE IF portId = kMidiInputPortOffset THEN [ok |-> TRUE, port |-> kMidiChannelIndex]
    ELSE IF portId = kMidiOutputPortOffset THEN [ok |-> TRUE, port |-> kMidiChannelIndex]
    ELSE IF portId >= kAudioOutputPortOffset
         THEN [ok |-> TRUE, port |-> portId - kAudioOutputPortOffset]
    ELSE [ok |-> TRUE, port |-> portId - kAudioInputPortOffset]

(***************************************************************************)
(* The underlying processing graph (AudioProcessorGraph)                   *)
(***************************************************************************)
\* carla_fixValue(min, max, value)
carla_fixValue(min, max, value) ==
    IF value <= min THEN min ELSE IF value >= max THEN max ELSE value

NodeRec(isPlugin, pluginId, numIns, numOuts, acceptsMidi, producesMidi) ==
    [isPlugin |-> isPlugin, pluginId |-> pluginId, numIns |-> numIns, numOuts |-> numOuts,
     acceptsMidi |-> acceptsMidi, producesMidi |-> producesMidi]

\* the id the graph gave to the first built-in node; the others follow
FirstNodeId == 2
\* the four hardware pseudo-nodes, in the order the constructor adds them
BuiltinNodes ==
    LET ins == carla_fixValue(0, MAX_PATCHBAY_PLUGINS - 2, Inputs)
        outs == carla_fixValue(0, MAX_PATCHBAY_PLUGINS - 2, Outputs)
    IN (FirstNodeId :> NodeRec(FALSE, -1, 0, ins, FALSE, FALSE))
       @@ ((FirstNodeId + 1) :> NodeRec(FALSE, -1, outs, 0, FALSE, FALSE))
       @@ ((FirstNodeId + 2) :> NodeRec(FALSE, -1, 0, 0, FALSE, TRUE))
       @@ ((FirstNodeId + 3) :> NodeRec(FALSE, -1, 0, 0, TRUE, FALSE))

Edge(src, sch, dst, dch) == <<src, sch, dst, dch>>

\* AudioProcessorGraph::canConnect
GraphCanConnect(ns, es, src, sch, dst, dch) ==
    /\ sch >= 0 /\ dch >= 0
    /\ src # dst
    /\ (sch = kMidiChannelIndex) = (dch = kMidiChannelIndex)
    /\ src \in DOMAIN ns
    /\ IF sch = kMidiChannelIndex THEN ns[src].producesMidi ELSE sch < ns[src].numOuts
    /\ dst \in DOMAIN ns
    /\ IF dch = kMidiChannelIndex THEN ns[dst].acceptsMidi ELSE dch < ns[dst].numIns
    /\ Edge(src, sch, dst, dch) \notin es

\* AudioProcessorGraph::removeNode: the node goes together with its edges
GraphRemoveNode(ns, es, id) ==
    [nodes |-> [n \in (DOMAIN ns) \ {id} |-> ns[n]],
     edges |-> {e \in es : e[1] # id /\ e[3] # id}]

\* AudioProcessorGraph::removeIllegalConnections
GraphLegalEdges(ns, es) ==
    {e \in es :
        /\ e[1] \in DOMAIN ns /\ e[3] \in DOMAIN ns
        /\ IF e[2] = kMidiChannelIndex THEN ns[e[1]].producesMidi ELSE e[2] < ns[e[1]].numOuts
        /\ IF e[4] = kMidiChannelIndex THEN ns[e[3]].acceptsMidi ELSE e[4] < ns[e[3]].numIns}

\* the order the graph keeps its connections in: source node, destination
\* node, source channel, destination channel
EdgeBefore(a, b) ==
    \/ a[1] < b[1]
    \/ a[1] = b[1] /\ a[3] < b[3]
    \/ a[1] = b[1] /\ a[3] = b[3] /\ a[2] < b[2]
    \/ a[1] = b[1] /\ a[3] = b[3] /\ a[2] = b[2] /\ a[4] < b[4]

RECURSIVE SortedEdges(_)
SortedEdges(es) ==
    IF es = {} THEN <<>>
    ELSE LET first == CHOOSE e \in es : \A f \in es \ {e} : EdgeBefore(e, f)
         IN <<first>> \o SortedEdges(es \ {first})

(***************************************************************************)
(* PatchbayGraph                                                           *)
(***************************************************************************)
\* the shapes of plugin a host may load: audio ins, audio outs, event ports
PluginShapes ==
    {[ins |-> 1, outs |-> 1, evIn |-> FALSE, evOut |-> FALSE]}

\* the node CarlaPluginInstance presents to the graph
PluginNode(shape, pluginId) ==
    NodeRec(TRUE, pluginId, shape.ins, shape.outs, shape.evIn, shape.evOut)

\* addNodeToPatchbay
addNodeToPatchbay(groupId, n) ==
    <<CbOther("ClientAdded", groupId)>>
    \o [i \in 1..n.numIns |-> CbOther("PortAdded", groupId)]
    \o [i \in 1..n.numOuts |-> CbOther("PortAdded", groupId)]
    \o (IF n.acceptsMidi THEN <<CbOther("PortAdded", groupId)>> ELSE <<>>)
    \o (IF n.producesMidi THEN <<CbOther("PortAdded", groupId)>> ELSE <<>>)

\* removeNodeFromPatchbay
removeNodeFromPatchbay(groupId, n) ==
    [i \in 1..n.numIns |-> CbOther("PortRemoved", groupId)]
    \o [i \in 1..n.numOuts |-> CbOther("PortRemoved", groupId)]
    \o (IF n.acceptsMidi THEN <<CbOther("PortRemoved", groupId)>> ELSE <<>>)
    \o (IF n.producesMidi THEN <<CbOther("PortRemoved", groupId)>> ELSE <<>>)
    \o <<CbOther("ClientRemoved", groupId)>>

\* the entries a walk keeps when every removal makes it step over the entry
\* that follows the removed one
RECURSIVE KeptSkippingAfterRemoval(_, _)
KeptSkippingAfterRemoval(list, groupId) ==
    IF Len(list) = 0 THEN <<>>
    ELSE IF Head(list).groupA = groupId \/ Head(list).groupB = groupId
    THEN (IF Len(list) = 1 THEN <<>>
          ELSE <<list[2]>> \o KeptSkippingAfterRemoval(Tail(Tail(list)), groupId))
    ELSE <<Head(list)>> \o KeptSkippingAfterRemoval(Tail(list), groupId)

\* a disconnectGroup whose walk loses its place at every removal
disconnectGroupSkipsNext(list, groupId) ==
    LET kept == KeptSkippingAfterRemoval(list, groupId)
        Gone(c) == \A k \in 1..Len(kept) : kept[k] # c
        gone == SelectSeq(list, Gone)
    IN [list |-> kept,
        cbs |-> [k \in 1..Len(gone) |-> [op |-> "ConnectionRemoved", id |-> gone[k].id,
                                         payload |-> <<>>]]]

\* PatchbayGraph::disconnectGroup: the registry entries that stay, and the
\* callbacks for those that go; the graph's edges are not touched
TouchesGroup(c, groupId) == c.groupA = groupId \/ c.groupB = groupId

disconnectGroup(list, groupId) ==
    LET Stays(c) == ~TouchesGroup(c, groupId)
        Goes(c) == TouchesGroup(c, groupId)
        gone == SelectSeq(list, Goes)
    IN [list |-> SelectSeq(list, Stays),
        cbs |-> [k \in 1..Len(gone) |-> CbConnRemoved(gone[k].id)]]

PatchbayConnect(gA, pA, gB, pB) ==
    /\ ~isRack
    /\ LET a == adjustPatchbayPortIdForJuce(pA)
           b == adjustPatchbayPortIdForJuce(pB)
       IN IF ~a.ok \/ ~b.ok
          THEN AssertReturn("connect", 0)
          ELSE IF ~GraphCanConnect(nodes, edges, gA, a.port, gB, b.port)
          THEN ErrorReturn("connect", 0, FALSE, "Failed from juce")
          ELSE /\ lastId < MaxId
               /\ edges' = edges \cup {Edge(gA, a.port, gB, b.port)}
               /\ lastId' = NextId(lastId)
               /\ connList' = Append(connList, ConnectionToId(lastId', gA, pA, gB, pB))
               /\ callbacks' = <<CbConnAdded(lastId', gA, pA, gB, pB)>>
               /\ lastOp' = OpRec("connect", TRUE, lastId', FALSE, "")
               /\ issued' = Append(issued, lastId')
               /\ UNCHANGED <<isRack, rackVars, plainSeq,
                              nodes, lastNodeId, plugins, ignorePathbay>>

PatchbayDisconnect(connectionId) ==
    /\ ~isRack
    /\ LET i == FindConnection(connectionId) IN
       IF i = 0
       THEN ErrorReturn("disconnect", 0, FALSE, "Failed to find connection")
       ELSE LET c == connList[i]
                a == adjustPatchbayPortIdForJuce(c.portA)
                b == adjustPatchbayPortIdForJuce(c.portB)
                e == Edge(c.groupA, a.port, c.groupB, b.port)
            IN IF ~a.ok \/ ~b.ok \/ e \notin edges
               THEN /\ lastOp' = OpRec("disconnect", FALSE, 0, TRUE, "")
                    /\ callbacks' = <<>>
                    /\ UNCHANGED <<isRack, regVars, rackVars, issued, plainSeq, pbVars>>
               ELSE /\ edges' = edges \ {e}
                    /\ connList' = RemoveAt(connList, i)
                    /\ callbacks' = <<CbConnRemoved(c.id)>>
                    /\ lastOp' = OpRec("disconnect", TRUE, connectionId, TRUE, "")
                    /\ UNCHANGED <<isRack, lastId, rackVars, issued, plainSeq,
                                   nodes, lastNodeId, plugins, ignorePathbay>>

\* AudioProcessorGraph::addNode called without a node id: the graph numbers
\* the node one past the last id it gave out
GraphNewNodeId(last) == last + 1

\* PatchbayGraph::addPlugin, called by the engine after it stored the plugin
\* under the next free plugin id
PatchbayAddPlugin(shape) ==
    /\ ~isRack
    /\ lastNodeId < FirstNodeId + 3 + MaxNodes
    /\ LET id == GraphNewNodeId(lastNodeId)
           n == PluginNode(shape, Len(plugins))
       IN /\ lastNodeId' = id
          /\ nodes' = nodes @@ (id :> n)
          /\ plugins' = Append(plugins, [nodeId |-> id, shape |-> shape])
          /\ callbacks' = IF ignorePathbay THEN <<>> ELSE addNodeToPatchbay(id, n)
          /\ lastOp' = OpRec("addPlugin", TRUE, id, FALSE, "")
    /\ plainSeq' = FALSE
    /\ UNCHANGED <<isRack, regVars, rackVars, issued, edges, ignorePathbay>>

\* a removePlugin that leaves the pluginId properties as they are
FixPluginIdsNone(ns, pluginId) == ns

\* the "Fix plugin Ids properties" loop of removePlugin
FixPluginIds(ns, pluginId) ==
    [n \in DOMAIN ns |->
        IF \E i \in (pluginId + 1)..(Len(plugins) - 1) : plugins[i + 1].nodeId = n
        THEN [ns[n] EXCEPT !.pluginId =
                (CHOOSE i \in (pluginId + 1)..(Len(plugins) - 1) : plugins[i + 1].nodeId = n) - 1]
        ELSE ns[n]]

\* PatchbayGraph::removePlugin; the engine then closes the gap in its table
PatchbayRemovePlugin(pluginId) ==
    /\ ~isRack
    /\ pluginId < Len(plugins)
    /\ LET id == plugins[pluginId + 1].nodeId
           d == disconnectGroup(connList, id)
           g == GraphRemoveNode(FixPluginIds(nodes, pluginId), edges, id)
       IN /\ connList' = IF ignorePathbay THEN connList ELSE d.list
          /\ callbacks' = IF ignorePathbay THEN <<>>
                          ELSE d.cbs \o removeNodeFromPatchbay(id, nodes[id])
          /\ nodes' = g.nodes
          /\ edges' = g.edges
          /\ plugins' = RemoveAt(plugins, pluginId + 1)
          /\ lastOp' = OpRec("removePlugin", TRUE, id, FALSE, "")
    /\ plainSeq' = FALSE
    /\ UNCHANGED <<isRack, lastId, rackVars, issued, lastNodeId, ignorePathbay>>

\* PatchbayGraph::replacePlugin: the old node is removed, a new node is added
PatchbayReplacePlugin(pluginId, shape) ==
    /\ ~isRack
    /\ pluginId < Len(plugins)
    /\ lastNodeId < FirstNodeId + 3 + MaxNodes
    /\ LET oldId == plugins[pluginId + 1].nodeId
           d == disconnectGroup(connList, oldId)
           g == GraphRemoveNode(nodes, edges, oldId)
           id == GraphNewNodeId(lastNodeId)
           n == PluginNode(shape, pluginId)
       IN /\ connList' = IF ignorePathbay THEN connList ELSE d.list
          /\ callbacks' = IF ignorePathbay THEN <<>>
                          ELSE d.cbs \o removeNodeFromPatchbay(oldId, nodes[oldId])
                               \o addNodeToPatchbay(id, n)
          /\ lastNodeId' = id
          /\ nodes' = g.nodes @@ (id :> n)
          /\ edges' = g.edges
          /\ plugins' = [plugins EXCEPT ![pluginId + 1] = [nodeId |-> id, shape |-> shape]]
          /\ lastOp' = OpRec("replacePlugin", TRUE, id, FALSE, "")
    /\ plainSeq' = FALSE
    /\ UNCHANGED <<isRack, lastId, rackVars, issued, ignorePathbay>>

\* the state after the first k plugins went through the loop of removeAllPlugins
RECURSIVE RemoveAllFrom(_, _)
RemoveAllFrom(st, k) ==
    IF k > Len(plugins) THEN st
    ELSE LET id == plugins[k].nodeId
             d == disconnectGroup(st.list, id)
             g == GraphRemoveNode(st.nodes, st.edges, id)
         IN RemoveAllFrom(
              [list |-> IF ignorePathbay THEN st.list ELSE d.list,
               cbs |-> IF ignorePathbay THEN st.cbs
                       ELSE st.cbs \o d.cbs \o removeNodeFromPatchbay(id, st.nodes[id]),
               nodes |-> g.nodes, edges |-> g.edges], k + 1)

\* PatchbayGraph::removeAllPlugins; the engine then empties its table
PatchbayRemoveAllPlugins ==
    /\ ~isRack
    /\ Len(plugins) > 0
    /\ LET st == RemoveAllFrom([list |-> connList, cbs |-> <<>>,
                                nodes |-> nodes, edges |-> edges], 1)
       IN /\ connList' = st.list
          /\ callbacks' = st.cbs
          /\ nodes' = st.nodes
          /\ edges' = st.edges
    /\ plugins' = <<>>
    /\ lastOp' = OpRec("removeAllPlugins", TRUE, 0, FALSE, "")
    /\ plainSeq' = FALSE
    /\ UNCHANGED <<isRack, lastId, rackVars, issued, lastNodeId, ignorePathbay>>

\* EngineInternalGraph::setIgnorePatchbay
SetIgnorePatchbay(ignore) ==
    /\ ~isRack
    /\ ignorePathbay # ignore
    /\ ignorePathbay' = ignore
    /\ lastOp' = OpRec("setIgnorePatchbay", TRUE, 0, ignore, "")
    /\ callbacks' = <<>>
    /\ plainSeq' = FALSE
    /\ UNCHANGED <<isRack, regVars, rackVars, issued, nodes, lastNodeId,
                   edges, plugins>>

\* the registry entry refreshConnections builds for one edge of the graph
EdgeEndpoints(e) ==
    << e[1],
       IF e[2] = kMidiChannelIndex THEN kMidiOutputPortOffset ELSE e[2] + kAudioOutputPortOffset,
       e[3],
       IF e[4] = kMidiChannelIndex THEN kMidiInputPortOffset ELSE e[4] + kAudioInputPortOffset >>

\* the node ids in the order the graph holds them
RECURSIVE SortedIds(_)
SortedIds(ids) ==
    IF ids = {} THEN <<>>
    ELSE LET m == CHOOSE i \in ids : \A j \in ids : i <= j
         IN <<m>> \o SortedIds(ids \ {m})

RECURSIVE NodeAnnouncements(_)
NodeAnnouncements(ids) ==
    IF Len(ids) = 0 THEN <<>>
    ELSE addNodeToPatchbay(Head(ids), nodes[Head(ids)]) \o NodeAnnouncements(Tail(ids))

\* refreshConnections without connections.clear(): the old entries stay
PatchbayRefreshNoClear(external) ==
    /\ ~isRack
    /\ IF external
       THEN AssertReturn("refresh", 0)
       ELSE LET legal == GraphLegalEdges(nodes, edges)
                sorted == SortedEdges(legal)
                entries == WithIds([k \in 1..Len(sorted) |-> EdgeEndpoints(sorted[k])],
                                   ClearedLastId(lastId))
            IN /\ ClearedLastId(lastId) + Len(entries) <= MaxRefreshedId
               /\ edges' = legal
               /\ connList' = connList \o entries
               /\ lastId' = ClearedLastId(lastId) + Len(entries)
               /\ callbacks' = (IF ignorePathbay THEN <<>>
                                ELSE NodeAnnouncements(SortedIds(DOMAIN nodes)))
                               \o AddedCallbacks(entries)
               /\ lastOp' = OpRec("refresh", TRUE,
                                   IF lastOp.op = "refresh" /\ lastOp.ok THEN 1 ELSE 0,
                                   FALSE, "")
               /\ plainSeq' = FALSE
               /\ UNCHANGED <<isRack, rackVars, issued, nodes, lastNodeId,
                              plugins, ignorePathbay>>

\* CarlaEngine::patchbayRefresh on a patchbay: PatchbayGraph::refreshConnections;
\* the id of its record is 1 when the call before it was a refresh too
PatchbayRefresh(external) ==
    /\ ~isRack
    /\ IF external
       THEN AssertReturn("refresh", 0)
       ELSE LET legal == GraphLegalEdges(nodes, edges)
                sorted == SortedEdges(legal)
                entries == WithIds([k \in 1..Len(sorted) |-> EdgeEndpoints(sorted[k])],
                                   ClearedLastId(lastId))
            IN /\ ClearedLastId(lastId) + Len(entries) <= MaxRefreshedId
               /\ edges' = legal
               /\ connList' = entries
               /\ lastId' = ClearedLastId(lastId) + Len(entries)
               /\ callbacks' = (IF ignorePathbay THEN <<>>
                                ELSE NodeAnnouncements(SortedIds(DOMAIN nodes)))
                               \o AddedCallbacks(entries)
               /\ lastOp' = OpRec("refresh", TRUE,
                                   IF lastOp.op = "refresh" /\ lastOp.ok THEN 1 ELSE 0,
                                   FALSE, "")
               /\ plainSeq' = FALSE
               /\ UNCHANGED <<isRack, rackVars, issued, nodes, lastNodeId,
                              plugins, ignorePathbay>>

(***************************************************************************)
(* PatchbayGraph::getConnections                                           *)
(***************************************************************************)
\* getProcessorFullPortName: the processor is named by its node id, a channel
\* by its index; <<>> stands for the empty String
getProcessorFullPortName(ns, g, portId) ==
    IF portId < kAudioInputPortOffset \/ portId > kMidiOutputPortOffset THEN <<>>
    ELSE IF portId = kMidiOutputPortOffset THEN <<g, ":events-out">>
    ELSE IF portId = kMidiInputPortOffset THEN <<g, ":events-in">>
    ELSE IF portId >= kAudioOutputPortOffset
         THEN IF ns[g].numOuts > 0 THEN <<g, ":out", portId - kAudioOutputPortOffset>> ELSE <<>>
    ELSE IF ns[g].numIns > 0 THEN <<g, ":in", portId - kAudioInputPortOffset>> ELSE <<>>

PatchbayConnectionNames(c) ==
    IF c.id = 0 \/ c.groupA \notin DOMAIN nodes \/ c.groupB \notin DOMAIN nodes THEN <<>>
    ELSE LET nameA == getProcessorFullPortName(nodes, c.groupA, c.portA)
             nameB == getProcessorFullPortName(nodes, c.groupB, c.portB)
         IN IF nameA = <<>> \/ nameB = <<>> THEN <<>> ELSE <<nameA, nameB>>

RECURSIVE PatchbayNamesOf(_)
PatchbayNamesOf(list) ==
    IF Len(list) = 0 THEN <<>>
    ELSE PatchbayConnectionNames(Head(list)) \o PatchbayNamesOf(Tail(list))

\* PatchbayGraph::getConnections: <<>> stands for nullptr
PatchbayGetConnections == PatchbayNamesOf(connList)

\* CarlaEngine::getPatchbayConnections
getPatchbayConnections ==
    IF isRack THEN RackGetConnections ELSE PatchbayGetConnections

(***************************************************************************)
(* RackGraph::processHelper / RackGraph::process                           *)
(***************************************************************************)
Zeros == [f \in 1..BlockFrames |-> 0]
\* FloatVectorOperations::add
VecAdd(a, b) == [f \in 1..BlockFrames |-> a[f] + b[f]]

Abs(x) == IF x < 0 THEN -x ELSE x

\* findMinAndMax folded into a peak: the larger of |min| and |max|, limited to 1
Peak(buf) ==
    LET lo == CHOOSE x \in Range(buf) : \A y \in Range(buf) : x <= y
        hi == CHOOSE x \in Range(buf) : \A y \in Range(buf) : y <= x
        m == IF Abs(lo) > Abs(hi) THEN Abs(lo) ELSE Abs(hi)
    IN IF m > 1 THEN 1 ELSE m

\* the "connect input buffers" loop of processHelper for one connection
\* vector: a port that is 0 or not below `inputs` is skipped, the first port
\* kept is copied from inBuf[port], the later ones are added
RECURSIVE ConnectInput(_, _, _, _)
ConnectInput(list, inBuf, acc, noConnections) ==
    IF Len(list) = 0 THEN (IF noConnections THEN Zeros ELSE acc)
    ELSE LET port == Head(list) IN
         IF port = 0 \/ ~(port < Inputs)
         THEN ConnectInput(Tail(list), inBuf, acc, noConnections)
         ELSE ConnectInput(Tail(list), inBuf,
                           IF noConnections THEN inBuf[port] ELSE VecAdd(acc, inBuf[port]),
                           FALSE)

\* an output loop that copies the rack channel over the device channel
RECURSIVE ConnectOutputCopy(_, _, _)
ConnectOutputCopy(list, outBuf, chan) ==
    IF Len(list) = 0 THEN outBuf
    ELSE LET port == Head(list) IN
         IF ~(port > 0) \/ ~(port <= Outputs)
         THEN ConnectOutputCopy(Tail(list), outBuf, chan)
         ELSE ConnectOutputCopy(Tail(list), [outBuf EXCEPT ![port - 1] = chan], chan)

\* the "connect output buffers" loop of processHelper for one connection
\* vector: a port outside 1..outputs is skipped, the others get the rack
\* channel added to outBuf[port-1]
RECURSIVE ConnectOutput(_, _, _)
ConnectOutput(list, outBuf, chan) ==
    IF Len(list) = 0 THEN outBuf
    ELSE LET port == Head(list) IN
         IF ~(port > 0) \/ ~(port <= Outputs)
         THEN ConnectOutput(Tail(list), outBuf, chan)
         ELSE ConnectOutput(Tail(list),
                            [outBuf EXCEPT ![port - 1] = VecAdd(outBuf[port - 1], chan)], chan)

\* the kinds of plugin a rack may hold
PluginKinds ==
    {[name |-> "thru", audioIn |-> 2, audioOut |-> 2, midiOut |-> 0],
     [name |-> "gen", audioIn |-> 0, audioOut |-> 2, midiOut |-> 1]}

\* a plugin without a MIDI output that reports an output parameter: it leaves
\* a control event in events.out, the kind of event the callback converts with
\* convertToMidiData when it sends events.out
ControlOutputKind == [name |-> "ctl", audioIn |-> 2, audioOut |-> 2, midiOut |-> 0]

\* CarlaPlugin::process: "thru" copies its inputs and emits no events, "ctl"
\* copies its inputs and emits a control event, "gen" writes a constant signal
\* and passes the events it reads; what it emits is added to events.out
PluginProcess(kind, in0, in1, evIn) ==
    IF kind.name = "thru"
    THEN [out0 |-> in0, out1 |-> in1, evOut |-> <<>>]
    ELSE IF kind.name = "ctl"
    THEN [out0 |-> in0, out1 |-> in1, evOut |-> <<"ctl">>]
    ELSE [out0 |-> [f \in 1..BlockFrames |-> 1], out1 |-> [f \in 1..BlockFrames |-> 1],
          evOut |-> evIn]

\* the plugin loop without the "add input buffer" step
RECURSIVE ProcessPluginsNoAdd(_, _)
ProcessPluginsNoAdd(st, i) ==
    IF i > Len(rackPlugins) THEN st
    ELSE LET plugin == rackPlugins[i] IN
         IF ~plugin.enabled \/ ~plugin.lockable THEN ProcessPluginsNoAdd(st, i + 1)
         ELSE LET in0 == IF st.processed THEN st.out0 ELSE st.in0
                  in1 == IF st.processed THEN st.out1 ELSE st.in1
                  keepEvents == st.processed /\ st.oldMidiOutCount = 0 /\ Len(st.evIn) > 0
                  evIn == IF st.processed /\ ~keepEvents THEN st.evOut ELSE st.evIn
                  evOut == IF st.processed /\ ~keepEvents THEN <<>> ELSE st.evOut
                  r == PluginProcess(plugin.kind, in0, in1, evIn)
                  out0 == r.out0
                  out1 == r.out1
                  pk == [ins |-> IF plugin.kind.audioIn > 0 THEN <<Peak(in0), Peak(in1)>>
                                 ELSE <<0, 0>>,
                         outs |-> IF plugin.kind.audioOut > 0 THEN <<Peak(out0), Peak(out1)>>
                                  ELSE <<0, 0>>]
              IN ProcessPluginsNoAdd(
                    [in0 |-> in0, in1 |-> in1, out0 |-> out0, out1 |-> out1,
                     evIn |-> evIn, evOut |-> evOut \o r.evOut,
                     processed |-> TRUE, oldMidiOutCount |-> plugin.kind.midiOut,
                     peaks |-> [st.peaks EXCEPT ![i] = pk]], i + 1)

\* the plugin loop of RackGraph::process from plugin i on
RECURSIVE ProcessPlugins(_, _)
ProcessPlugins(st, i) ==
    IF i > Len(rackPlugins) THEN st
    ELSE LET plugin == rackPlugins[i] IN
         IF ~plugin.enabled \/ ~plugin.lockable THEN ProcessPlugins(st, i + 1)
         ELSE LET in0 == IF st.processed THEN st.out0 ELSE st.in0
                  in1 == IF st.processed THEN st.out1 ELSE st.in1
                  keepEvents == st.processed /\ st.oldMidiOutCount = 0 /\ Len(st.evIn) > 0
                  evIn == IF st.processed /\ ~keepEvents THEN st.evOut ELSE st.evIn
                  evOut == IF st.processed /\ ~keepEvents THEN <<>> ELSE st.evOut
                  r == PluginProcess(plugin.kind, in0, in1, evIn)
                  out0 == IF plugin.kind.audioIn = 0 THEN VecAdd(r.out0, in0) ELSE r.out0
                  out1 == IF plugin.kind.audioIn = 0 THEN VecAdd(r.out1, in1) ELSE r.out1
                  pk == [ins |-> IF plugin.kind.audioIn > 0 THEN <<Peak(in0), Peak(in1)>>
                                 ELSE <<0, 0>>,
                         outs |-> IF plugin.kind.audioOut > 0 THEN <<Peak(out0), Peak(out1)>>
                                  ELSE <<0, 0>>]
              IN ProcessPlugins(
                    [in0 |-> in0, in1 |-> in1, out0 |-> out0, out1 |-> out1,
                     evIn |-> evIn, evOut |-> evOut \o r.evOut,
                     processed |-> TRUE, oldMidiOutCount |-> plugin.kind.midiOut,
                     peaks |-> [st.peaks EXCEPT ![i] = pk]], i + 1)

\* a chain that starts as if a plugin had already run: its first plugin is fed
\* the cleared output buffers
RackProcessFirstFedOutput(inBuf0, inBuf1, evIn) ==
    ProcessPlugins([in0 |-> inBuf0, in1 |-> inBuf1, out0 |-> Zeros, out1 |-> Zeros,
                    evIn |-> evIn, evOut |-> <<>>, processed |-> TRUE,
                    oldMidiOutCount |-> 0, peaks |-> peaks], 1)

\* RackGraph::process: the rack's two output channels, the event buffers and
\* the peaks after the chain ran on the two input channels
RackProcess(inBuf0, inBuf1, evIn) ==
    ProcessPlugins([in0 |-> inBuf0, in1 |-> inBuf1, out0 |-> Zeros, out1 |-> Zeros,
                    evIn |-> evIn, evOut |-> <<>>, processed |-> FALSE,
                    oldMidiOutCount |-> 0, peaks |-> peaks], 1)

\* RackGraph::processHelper on the device buffers
RackProcessHelper(inBuf, outBuf, evIn) ==
    LET audioInBuf0 == IF Inputs > 0 THEN ConnectInput(connectedIn1, inBuf, Zeros, TRUE) ELSE Zeros
        audioInBuf1 == IF Inputs > 0 THEN ConnectInput(connectedIn2, inBuf, Zeros, TRUE) ELSE Zeros
        r == RackProcess(audioInBuf0, audioInBuf1, evIn)
    IN [outBuf |-> ConnectOutput(connectedOut2,
                                 ConnectOutput(connectedOut1, outBuf, r.out0), r.out1),
        evIn |-> r.evIn, evOut |-> r.evOut, peaks |-> r.peaks]

\* the audio part of audioDeviceIOCallback on a rack: the outputs are zeroed,
\* then the graph processes the block
AudioBlock ==
    /\ isRack
    /\ blockPc = "idle"
    /\ LET r == RackProcessHelper(deviceIn, [c \in 0..(Outputs - 1) |-> Zeros], eventsIn)
       IN /\ deviceOut' = r.outBuf
          /\ eventsIn' = r.evIn
          /\ eventsOut' = r.evOut
          /\ peaks' = r.peaks
    /\ blockPc' = "done"
    /\ UNCHANGED <<topoVars, deviceIn, rackPlugins, rtVars>>

\* the block variables of a specification that runs no audio block
BlockIdle ==
    /\ deviceIn = [c \in 0..(Inputs - 1) |-> Zeros]
    /\ deviceOut = [c \in 0..(Outputs - 1) |-> Zeros]
    /\ rackPlugins = <<>>
    /\ eventsIn = <<>>
    /\ eventsOut = <<>>
    /\ peaks = <<>>
    /\ blockPc = "idle"

(***************************************************************************)
(* MIDI-in staging (RtMidiEvents) and the threads that share state with    *)
(* the audio callback                                                      *)
(***************************************************************************)
\* struct RtMidiEvent: the time stamp and the message bytes (one value here)
RtMidiEvent(time, data) == [time |-> time, data |-> data]

Min(a, b) == IF a < b THEN a ELSE b

\* an append that gives up on a full pool: the new event is the one lost
PoolAppendDropsNewest(pending, event) ==
    IF Len(pending) >= PoolSize THEN pending
    ELSE Append(pending, event)

\* RtLinkedList::append on the pool the staging lists share: with the pool
\* full the oldest pending event is dropped
PoolAppend(pending, event) ==
    IF Len(pending) >= PoolSize THEN Append(Tail(pending), event)
    ELSE Append(pending, event)

\* the time the drain loop gives an EngineEvent.  The late branch adds in
\* uint32; the bounds keep its operands far below the wrap.
EngineEventTime(midiTime, frame, nframes) ==
    IF midiTime < frame THEN 0
    ELSE IF midiTime >= frame + nframes THEN frame + nframes - 1
    ELSE midiTime - frame

\* a drain that walks the list from its end
DrainedEventsReversed(list, frame, nframes) ==
    LET n == Min(Len(list), kMaxEngineEventInternalCount)
    IN [i \in 1..n |->
        [time |-> EngineEventTime(list[Len(list) + 1 - i].time, frame, nframes),
         data |-> list[Len(list) + 1 - i].data]]

\* a drain that writes no event
DrainedEventsNone(list, frame, nframes) == <<>>

\* a drain loop that never leaves early: one event written per queued event
DrainedEventsUnbounded(list, frame, nframes) ==
    [i \in 1..Len(list) |->
        [time |-> EngineEventTime(list[i].time, frame, nframes), data |-> list[i].data]]

\* the drain loop over fMidiInEvents.data: the events it writes to events.in.
\* The loop leaves after kMaxEngineEventInternalCount events.
DrainedEvents(list, frame, nframes) ==
    [i \in 1..Min(Len(list), kMaxEngineEventInternalCount) |->
        [time |-> EngineEventTime(list[i].time, frame, nframes), data |-> list[i].data]]

EventData(list) == {list[i].data : i \in 1..Len(list)}

NoCall == [op |-> "idle", args |-> <<>>]

\* the shared state of a specification that runs no thread beside its own
RtIdle ==
    /\ fIsReady = TRUE
    /\ audioBufs = "allocated"
    /\ bufsTorn = FALSE
    /\ dataPending = <<>>
    /\ stagingMutex = "free"
    /\ audioMutex = "free"
    /\ midiOutMutex = "free"
    /\ timeFrame = 0
    /\ produced = 0
    /\ ctlPc = NoCall
    /\ skippedWith = {}

\* pData->bufferSize, in frames
bufferSize == BlockFrames
\* the numSamples a device calls the callback with: the engine's and another
CallbackSizes == {bufferSize, bufferSize + 1}

\* ---- audio thread: audioDeviceIOCallback in steps
\* entry: the device outputs and both event buffers are zeroed
\* With numSamples different from pData->bufferSize the callback returns at
\* its assert: the output buffers stay as the device handed them over, which
\* is as the callback before left them.
CallbackEnter(numSamples) ==
    /\ isRack
    /\ blockPc \in {"idle", "rejected"}
    /\ IF numSamples # bufferSize
       THEN /\ blockPc' = "rejected"
            /\ UNCHANGED <<deviceOut, eventsIn, eventsOut>>
       ELSE /\ deviceOut' = [c \in 0..(Outputs - 1) |-> Zeros]
            /\ eventsIn' = <<>>
            /\ eventsOut' = <<>>
            /\ blockPc' = "drain"
    /\ UNCHANGED <<topoVars, deviceIn, rackPlugins, peaks, rtVars>>

\* fMidiInEvents.mutex.tryLock() and, when it succeeds, splice, the drain
\* loop, data.clear() and unlock.  fMidiInEvents.data is empty outside this
\* step: the spliced list is cleared before the mutex is released.
CallbackDrain ==
    /\ blockPc = "drain"
    /\ IF stagingMutex = "free"
       THEN /\ eventsIn' = DrainedEvents(dataPending, timeFrame, BlockFrames)
            /\ dataPending' = <<>>
            /\ UNCHANGED skippedWith
       ELSE /\ skippedWith' = skippedWith \cup EventData(dataPending)
            /\ UNCHANGED <<eventsIn, dataPending>>
    /\ blockPc' = "process"
    /\ UNCHANGED <<topoVars, deviceIn, deviceOut, rackPlugins, eventsOut, peaks,
                   fIsReady, audioBufs, bufsTorn, stagingMutex, audioMutex,
                   midiOutMutex, timeFrame, produced, ctlPc>>

\* pData->graph.process(): EngineInternalGraph::process calls processHelper,
\* which returns at once when audio.outBuf[1] is nullptr
GraphProcess ==
    /\ blockPc = "process"
    /\ blockPc' = IF audioBufs = "freed" THEN "midiout_lock" ELSE "helper_lock"
    /\ UNCHANGED <<topoVars, deviceIn, deviceOut, rackPlugins, eventsIn, eventsOut,
                   peaks, rtVars>>

\* processHelper entered without taking audio.mutex
HelperLockNoMutex ==
    /\ blockPc = "helper_lock"
    /\ blockPc' = "helper"
    /\ UNCHANGED <<topoVars, deviceIn, deviceOut, rackPlugins, eventsIn, eventsOut,
                   peaks, rtVars>>

\* processHelper: CarlaRecursiveMutexLocker _cml(audio.mutex), a blocking lock
HelperLock ==
    /\ blockPc = "helper_lock"
    /\ audioMutex = "free"
    /\ audioMutex' = "audio"
    /\ blockPc' = "helper"
    /\ UNCHANGED <<topoVars, deviceIn, deviceOut, rackPlugins, eventsIn, eventsOut,
                   peaks, fIsReady, audioBufs, bufsTorn, dataPending, stagingMutex,
                   midiOutMutex, timeFrame, produced, ctlPc, skippedWith>>

\* what a block may leave in the device outputs when processHelper used
\* buffers that were deleted under it
AnyOutput == [0..(Outputs - 1) -> [1..BlockFrames -> 0..MaxSample]]

\* processHelper under the lock, up to its return
HelperRun ==
    /\ blockPc = "helper"
    /\ IF bufsTorn \/ audioBufs = "freed"
       THEN /\ deviceOut' \in AnyOutput
            /\ UNCHANGED <<eventsIn, eventsOut, peaks>>
       ELSE LET r == RackProcessHelper(deviceIn, deviceOut, eventsIn)
            IN /\ deviceOut' = r.outBuf
               /\ eventsIn' = r.evIn
               /\ eventsOut' = r.evOut
               /\ peaks' = r.peaks
    /\ bufsTorn' = FALSE
    /\ audioMutex' = "free"
    /\ blockPc' = "midiout_lock"
    /\ UNCHANGED <<topoVars, deviceIn, rackPlugins, fIsReady, audioBufs, dataPending,
                   stagingMutex, midiOutMutex, timeFrame, produced, ctlPc, skippedWith>>

\* fMidiOutMutex.lock(), a blocking lock; events.out is sent to the open
\* MIDI outputs and the mutex is released
CallbackMidiOut ==
    /\ blockPc = "midiout_lock"
    /\ midiOutMutex = "free"
    /\ blockPc' = "idle"
    /\ UNCHANGED <<topoVars, deviceIn, deviceOut, rackPlugins, eventsIn, eventsOut,
                   peaks, rtVars>>

\* ---- driver MIDI thread: handleIncomingMidiMessage for a message of valid
\* size, in the two steps of RtMidiEvents::append
ProducerLock ==
    /\ produced < MaxEvents
    /\ stagingMutex = "free"
    /\ stagingMutex' = "producer"
    /\ UNCHANGED <<topoVars, blockVars, fIsReady, audioBufs, bufsTorn, dataPending,
                   audioMutex, midiOutMutex, timeFrame, produced, ctlPc, skippedWith>>

\* the event is stamped with time 0
ProducerAppend ==
    /\ stagingMutex = "producer"
    /\ dataPending' = PoolAppend(dataPending, RtMidiEvent(0, produced + 1))
    /\ produced' = produced + 1
    /\ stagingMutex' = "free"
    /\ UNCHANGED <<topoVars, blockVars, fIsReady, audioBufs, bufsTorn, audioMutex,
                   midiOutMutex, timeFrame, ctlPc, skippedWith>>

\* ---- control thread
\* TRUE when the connect's Carla port is an audio port (its vector is changed
\* under audio.mutex); the MIDI-out port is appended under fMidiOutMutex
TakesAudioMutex(a) ==
    RackSplit(a[1][1], a[1][2], a[2][1], a[2][2]).carlaPort
        \in RACK_GRAPH_CARLA_PORT_AUDIO_IN1..RACK_GRAPH_CARLA_PORT_AUDIO_OUT2

\* RackGraph::connect up to the lock it takes
CtlConnectLock(a) ==
    /\ isRack
    /\ ctlPc = NoCall
    /\ lastId < MaxId
    /\ IF TakesAudioMutex(a)
       THEN /\ audioMutex = "free"
            /\ audioMutex' = "control"
            /\ UNCHANGED midiOutMutex
       ELSE /\ midiOutMutex = "free"
            /\ midiOutMutex' = "control"
            /\ UNCHANGED audioMutex
    /\ ctlPc' = [op |-> "connect", args |-> a]
    /\ UNCHANGED <<topoVars, blockVars, fIsReady, audioBufs, bufsTorn, dataPending,
                   stagingMutex, timeFrame, produced, skippedWith>>

\* RackGraph::connect under the lock: the switch changes the vector or the
\* open port list and the mutex is released; the call has not returned yet
CtlConnectSwitch ==
    /\ ctlPc.op = "connect"
    /\ LET a == ctlPc.args
           s == RackSplit(a[1][1], a[1][2], a[2][1], a[2][2])
           m == RackMakeConnection(s.carlaPort, s.otherPort)
       IN /\ SetRackState(m.st)
          /\ ctlPc' = [op |-> IF m.ok THEN "connect_made" ELSE "connect_refused", args |-> a]
          /\ IF TakesAudioMutex(a)
             THEN audioMutex' = "free" /\ UNCHANGED midiOutMutex
             ELSE midiOutMutex' = "free" /\ UNCHANGED audioMutex
    /\ UNCHANGED <<isRack, regVars, midiIns, midiOuts, obsVars, pbVars>>
    /\ UNCHANGED <<blockVars, fIsReady, audioBufs, bufsTorn, dataPending,
                   stagingMutex, timeFrame, produced, skippedWith>>

\* the rest of RackGraph::connect: the error return or the registration
CtlConnectDone ==
    /\ ctlPc.op \in {"connect_made", "connect_refused"}
    /\ LET a == ctlPc.args
           s == RackSplit(a[1][1], a[1][2], a[2][1], a[2][2])
       IN IF ctlPc.op = "connect_made"
          THEN RackRegister(a[1][1], a[1][2], a[2][1], a[2][2])
          ELSE SwitchFailedReturn("connect", RackIsAudioPort(s.carlaPort))
    /\ ctlPc' = NoCall
    /\ UNCHANGED <<rackVars, blockVars, fIsReady, audioBufs, bufsTorn, dataPending,
                   stagingMutex, audioMutex, midiOutMutex, timeFrame, produced,
                   skippedWith>>

\* the endpoints of the registry entry with this id
EntryArgs(connectionId) ==
    LET c == connList[FindConnection(connectionId)]
    IN << <<c.groupA, c.portA>>, <<c.groupB, c.portB>> >>

\* RackGraph::disconnect of a registered id, up to the lock it takes
CtlDisconnectLock(connectionId) ==
    /\ isRack
    /\ ctlPc = NoCall
    /\ FindConnection(connectionId) # 0
    /\ IF TakesAudioMutex(EntryArgs(connectionId))
       THEN /\ audioMutex = "free"
            /\ audioMutex' = "control"
            /\ UNCHANGED midiOutMutex
       ELSE /\ midiOutMutex = "free"
            /\ midiOutMutex' = "control"
            /\ UNCHANGED audioMutex
    /\ ctlPc' = [op |-> "disconnect", args |-> <<connectionId>>]
    /\ UNCHANGED <<topoVars, blockVars, fIsReady, audioBufs, bufsTorn, dataPending,
                   stagingMutex, timeFrame, produced, skippedWith>>

\* RackGraph::disconnect under the lock: the switch takes the port out and
\* the mutex is released; the call has not returned yet
CtlDisconnectSwitch ==
    /\ ctlPc.op = "disconnect"
    /\ LET a == EntryArgs(ctlPc.args[1])
           s == RackSplit(a[1][1], a[1][2], a[2][1], a[2][2])
           m == RackMakeDisconnection(s.carlaPort, s.otherPort)
       IN /\ SetRackState(m.st)
          /\ ctlPc' = [op |-> IF m.ok THEN "disconnect_made" ELSE "disconnect_refused",
                       args |-> ctlPc.args]
          /\ IF TakesAudioMutex(a)
             THEN audioMutex' = "free" /\ UNCHANGED midiOutMutex
             ELSE midiOutMutex' = "free" /\ UNCHANGED audioMutex
    /\ UNCHANGED <<isRack, regVars, midiIns, midiOuts, obsVars, pbVars>>
    /\ UNCHANGED <<blockVars, fIsReady, audioBufs, bufsTorn, dataPending,
                   stagingMutex, timeFrame, produced, skippedWith>>

\* the rest of RackGraph::disconnect: the error return, or the callback and
\* the removal from the registry
CtlDisconnectDone ==
    /\ ctlPc.op \in {"disconnect_made", "disconnect_refused"}
    /\ IF ctlPc.op = "disconnect_made"
       THEN RackUnregister(FindConnection(ctlPc.args[1]), ctlPc.args[1])
       ELSE SwitchFailedReturn("disconnect", TRUE)
    /\ ctlPc' = NoCall
    /\ UNCHANGED <<rackVars, blockVars, fIsReady, audioBufs, bufsTorn, dataPending,
                   stagingMutex, audioMutex, midiOutMutex, timeFrame, produced,
                   skippedWith>>

\* EngineInternalGraph::setBufferSize: ScopedValueSetter clears fIsReady; with
\* fRack == nullptr the assert returns at once
SetBufferSizeBegin ==
    /\ isRack
    /\ ctlPc = NoCall
    /\ fIsReady' = FALSE
    /\ ctlPc' = [op |-> "setBufferSize",
                 args |-> IF audioBufs = "none" THEN <<"return">> ELSE <<"flag">>]
    /\ UNCHANGED <<topoVars, blockVars, audioBufs, bufsTorn, dataPending, stagingMutex,
                   audioMutex, midiOutMutex, timeFrame, produced, skippedWith>>

\* RackGraph::setBufferSize: the buffers are deleted and set to nullptr
SetBufferSizeFree ==
    /\ ctlPc = [op |-> "setBufferSize", args |-> <<"flag">>]
    /\ audioBufs' = "freed"
    /\ bufsTorn' = (bufsTorn \/ blockPc = "helper")
    /\ ctlPc' = [op |-> "setBufferSize", args |-> <<"freed">>]
    /\ UNCHANGED <<topoVars, blockVars, fIsReady, dataPending, stagingMutex,
                   audioMutex, midiOutMutex, timeFrame, produced, skippedWith>>

\* RackGraph::setBufferSize: new buffers are allocated and cleared
SetBufferSizeAlloc ==
    /\ ctlPc = [op |-> "setBufferSize", args |-> <<"freed">>]
    /\ audioBufs' = "allocated"
    /\ ctlPc' = [op |-> "setBufferSize", args |-> <<"allocated">>]
    /\ UNCHANGED <<topoVars, blockVars, fIsReady, bufsTorn, dataPending, stagingMutex,
                   audioMutex, midiOutMutex, timeFrame, produced, skippedWith>>

\* EngineInternalGraph::setBufferSize returns: ScopedValueSetter sets fIsReady
SetBufferSizeEnd ==
    /\ ctlPc.op = "setBufferSize"
    /\ ctlPc.args \in {<<"allocated">>, <<"return">>}
    /\ fIsReady' = TRUE
    /\ ctlPc' = NoCall
    /\ UNCHANGED <<topoVars, blockVars, audioBufs, bufsTorn, dataPending, stagingMutex,
                   audioMutex, midiOutMutex, timeFrame, produced, skippedWith>>

(***************************************************************************)
(* Spec: topology calls made by a control thread                           *)
(***************************************************************************)
\* the number of ports of a rack group other than Carla
RackGroupPorts(g) ==
    CASE g = RACK_GRAPH_GROUP_AUDIO_IN -> Inputs
      [] g = RACK_GRAPH_GROUP_AUDIO_OUT -> Outputs
      [] g = RACK_GRAPH_GROUP_MIDI_IN -> Len(MidiInDevices)
      [] g = RACK_GRAPH_GROUP_MIDI_OUT -> Len(MidiOutDevices)
      [] OTHER -> 0

\* (Carla endpoint, other endpoint) pairs a caller may hand to patchbayConnect
\* on a rack: every Carla port with every port id of its own group from 0 to
\* one past the last, and with one port of a foreign and of an invalid group;
\* the Carla port ids NULL and MAX
RackPairs ==
    UNION {{<< <<RACK_GRAPH_GROUP_CARLA, p>>, <<RackExpectedGroup(p), q>> >> :
                q \in 0..(RackGroupPorts(RackExpectedGroup(p)) + 1)} :
           p \in RACK_GRAPH_CARLA_PORT_AUDIO_IN1..RACK_GRAPH_CARLA_PORT_MIDI_OUT}
    \cup {<< <<RACK_GRAPH_GROUP_CARLA, p>>, <<g, 1>> >> :
        p \in {RACK_GRAPH_CARLA_PORT_AUDIO_IN1, RACK_GRAPH_CARLA_PORT_MIDI_IN},
        g \in {RACK_GRAPH_GROUP_AUDIO_OUT, RACK_GRAPH_GROUP_MAX}}
    \cup {<< <<RACK_GRAPH_GROUP_CARLA, p>>, <<RACK_GRAPH_GROUP_AUDIO_IN, 1>> >> :
        p \in {RACK_GRAPH_CARLA_PORT_NULL, RACK_GRAPH_CARLA_PORT_MAX}}

\* the pairs in either order, and two calls that name one endpoint twice
RackConnectArgs ==
    RackPairs
    \cup {<<a[2], a[1]>> : a \in RackPairs}
    \cup {<<a, a>> : a \in {<<RACK_GRAPH_GROUP_CARLA, RACK_GRAPH_CARLA_PORT_AUDIO_IN1>>,
                            <<RACK_GRAPH_GROUP_AUDIO_IN, 1>>}}

\* endpoints a caller may hand to patchbayConnect on a patchbay.  As first
\* endpoint: the audio pseudo-nodes with their first audio port in either
\* encoding, every plugin node id the graph can hold with its first audio
\* output, the MIDI pseudo-nodes with the event port in either encoding, and a
\* port id on either side of the encoded range.  As second endpoint the same,
\* the plugin nodes with their first audio input.
PatchbayHardwareEnds ==
    {<<g, p>> : g \in {FirstNodeId, FirstNodeId + 1},
                p \in {kAudioInputPortOffset, kAudioOutputPortOffset}}
    \cup {<<g, p>> : g \in {FirstNodeId + 2, FirstNodeId + 3},
                     p \in {kMidiInputPortOffset, kMidiOutputPortOffset}}
    \cup {<<FirstNodeId, kAudioInputPortOffset - 1>>, <<FirstNodeId, kMidiOutputPortOffset + 1>>}
PatchbayPluginIds == (FirstNodeId + 4)..(FirstNodeId + 3 + MaxNodes)
PatchbayConnectArgs ==
    (PatchbayHardwareEnds \cup {<<g, kAudioOutputPortOffset>> : g \in PatchbayPluginIds})
    \X (PatchbayHardwareEnds \cup {<<g, kAudioInputPortOffset>> : g \in PatchbayPluginIds})

\* the state after CarlaEngineJuce::init (rack) or after
\* EngineInternalGraph::create(false, ...) (patchbay)
Init ==
    /\ isRack \in BOOLEAN
    /\ connList = <<>>
    /\ lastId = 0
    /\ connectedIn1 = <<>> /\ connectedIn2 = <<>>
    /\ connectedOut1 = <<>> /\ connectedOut2 = <<>>
    /\ midiIns = IF isRack THEN DevicePorts(RACK_GRAPH_GROUP_MIDI_IN, MidiInDevices) ELSE <<>>
    /\ midiOuts = IF isRack THEN DevicePorts(RACK_GRAPH_GROUP_MIDI_OUT, MidiOutDevices) ELSE <<>>
    /\ fMidiIns = <<>> /\ fMidiOuts = <<>>
    /\ lastOp = OpRec("init", TRUE, 0, FALSE, "")
    /\ callbacks = <<>>
    /\ issued = <<>>
    /\ plainSeq = TRUE
    /\ nodes = IF isRack THEN <<>> ELSE BuiltinNodes
    /\ lastNodeId = IF isRack THEN 0 ELSE FirstNodeId + 3
    /\ edges = {}
    /\ plugins = <<>>
    /\ ignorePathbay = FALSE
    /\ BlockIdle
    /\ RtIdle

TopologyCall ==
    \/ \E a \in RackConnectArgs : RackConnect(a[1][1], a[1][2], a[2][1], a[2][2])
    \/ \E id \in 0..MaxId : RackDisconnect(id)
    \/ \E external \in BOOLEAN, devs \in DeviceLists : PatchbayRefreshRack(external, devs)
    \/ \E a \in PatchbayConnectArgs : PatchbayConnect(a[1][1], a[1][2], a[2][1], a[2][2])
    \/ \E id \in 0..MaxRefreshedId : PatchbayDisconnect(id)
    \/ \E shape \in PluginShapes : PatchbayAddPlugin(shape)
    \/ \E k \in 0..(MaxNodes - 1) : PatchbayRemovePlugin(k)
    \/ \E k \in 0..(MaxNodes - 1), shape \in PluginShapes : PatchbayReplacePlugin(k, shape)
    \/ PatchbayRemoveAllPlugins
    \/ \E ignore \in BOOLEAN : SetIgnorePatchbay(ignore)
    \/ \E external \in BOOLEAN : PatchbayRefresh(external)

Next == TopologyCall /\ UNCHANGED <<blockVars, rtVars>>

Spec == Init /\ [][Next]_vars

(***************************************************************************)
(* Properties of the topology calls                                        *)
(***************************************************************************)
\* C2: the ConnectionIds issued by successive successful connect calls on one
\* graph (Rack or Patchbay) are strictly increasing and never 0
IdsStrictlyIncreasing ==
    \A i \in 1..Len(issued) :
        /\ issued[i] # 0
        /\ i > 1 => issued[i] > issued[i - 1]

\* a connect, a disconnect and a second connect were made, and the second
\* connect's id is the one in the registry
IdsReissuedAfterDisconnect ==
    /\ plainSeq
    /\ Len(issued) = 2
    /\ lastOp.op = "connect" /\ lastOp.ok
    /\ Len(connList) = 1 /\ connList[1].id = issued[2]

\* C3: from an empty registry and with connect and disconnect calls only, a
\* disconnect of an id that is in the registry returns true, and once every
\* issued id is disconnected getPatchbayConnections() is empty, as are the four
\* rack connection vectors, the open MIDI port lists and the graph's edges
RoundTripLeavesNothing ==
    plainSeq =>
        /\ (lastOp.op = "disconnect" /\ lastOp.found) => lastOp.ok
        /\ connList = <<>> =>
            /\ getPatchbayConnections = <<>>
            /\ connectedIn1 = <<>> /\ connectedIn2 = <<>>
            /\ connectedOut1 = <<>> /\ connectedOut2 = <<>>
            /\ fMidiIns = <<>> /\ fMidiOuts = <<>>
            /\ edges = {}

\* two connects were made and both ids are disconnected again
RoundTripDone ==
    /\ plainSeq
    /\ Len(issued) = 2
    /\ connList = <<>>
    /\ lastOp.op = "disconnect" /\ lastOp.ok

\* the edge of the graph a registry entry decodes to
EntryEdge(c) ==
    Edge(c.groupA, adjustPatchbayPortIdForJuce(c.portA).port,
         c.groupB, adjustPatchbayPortIdForJuce(c.portB).port)

\* C4: in Patchbay mode every registry entry decodes to an existing edge
\* between existing nodes, and every edge has exactly one registry entry
RegistryMatchesEdges ==
    ~isRack =>
        /\ \A i \in 1..Len(connList) :
              /\ adjustPatchbayPortIdForJuce(connList[i].portA).ok
              /\ adjustPatchbayPortIdForJuce(connList[i].portB).ok
              /\ connList[i].groupA \in DOMAIN nodes
              /\ connList[i].groupB \in DOMAIN nodes
              /\ EntryEdge(connList[i]) \in edges
        /\ \A e \in edges :
              Cardinality({i \in 1..Len(connList) : EntryEdge(connList[i]) = e}) = 1

\* port directions and types of the rack
RackIsOutput(g, p) ==
    \/ g = RACK_GRAPH_GROUP_CARLA
       /\ p \in {RACK_GRAPH_CARLA_PORT_AUDIO_OUT1, RACK_GRAPH_CARLA_PORT_AUDIO_OUT2,
                 RACK_GRAPH_CARLA_PORT_MIDI_OUT}
    \/ g \in {RACK_GRAPH_GROUP_AUDIO_IN, RACK_GRAPH_GROUP_MIDI_IN}
RackIsInput(g, p) ==
    \/ g = RACK_GRAPH_GROUP_CARLA
       /\ p \in {RACK_GRAPH_CARLA_PORT_AUDIO_IN1, RACK_GRAPH_CARLA_PORT_AUDIO_IN2,
                 RACK_GRAPH_CARLA_PORT_MIDI_IN}
    \/ g \in {RACK_GRAPH_GROUP_AUDIO_OUT, RACK_GRAPH_GROUP_MIDI_OUT}
RackIsMidi(g, p) ==
    \/ g = RACK_GRAPH_GROUP_CARLA
       /\ p \in {RACK_GRAPH_CARLA_PORT_MIDI_IN, RACK_GRAPH_CARLA_PORT_MIDI_OUT}
    \/ g \in {RACK_GRAPH_GROUP_MIDI_IN, RACK_GRAPH_GROUP_MIDI_OUT}

\* port directions and types of the patchbay's port id encoding
PatchbayIsOutput(p) ==
    p = kMidiOutputPortOffset \/ (p >= kAudioOutputPortOffset /\ p < kMidiInputPortOffset)
PatchbayIsInput(p) ==
    p = kMidiInputPortOffset \/ (p >= kAudioInputPortOffset /\ p < kAudioOutputPortOffset)
PatchbayIsMidi(p) == p \in {kMidiInputPortOffset, kMidiOutputPortOffset}

\* C5: every registry entry has an output port as endpoint A and an input
\* port of the same type as endpoint B
ConnectionsDirected ==
    \A i \in 1..Len(connList) :
        LET c == connList[i] IN
        IF isRack
        THEN /\ RackIsOutput(c.groupA, c.portA)
             /\ RackIsInput(c.groupB, c.portB)
             /\ RackIsMidi(c.groupA, c.portA) = RackIsMidi(c.groupB, c.portB)
        ELSE /\ PatchbayIsOutput(c.portA)
             /\ PatchbayIsInput(c.portB)
             /\ PatchbayIsMidi(c.portA) = PatchbayIsMidi(c.portB)

\* C10: in Rack every element of connectedIn1/connectedIn2 is a port index in
\* 1..inputs and every element of connectedOut1/connectedOut2 one in 1..outputs
RackVectorsInRange ==
    isRack =>
        /\ \A p \in Range(connectedIn1) \cup Range(connectedIn2) : 1 <= p /\ p <= Inputs
        /\ \A p \in Range(connectedOut1) \cup Range(connectedOut2) : 1 <= p /\ p <= Outputs

\* TRUE when no value occurs twice in the list
NoRepeat(list) == \A i, j \in 1..Len(list) : list[i] = list[j] => i = j

\* the two endpoints of a registry entry, in either order
Endpoints(c) == {<<c.groupA, c.portA>>, <<c.groupB, c.portB>>}

\* TRUE when the entry connects a Carla audio port
IsAudioEntry(c) ==
    \/ c.groupA = RACK_GRAPH_GROUP_CARLA /\ RackIsAudioPort(c.portA)
    \/ c.groupB = RACK_GRAPH_GROUP_CARLA /\ RackIsAudioPort(c.portB)

\* the connection vector of a Carla audio port
VectorOf(carlaPort) ==
    CASE carlaPort = RACK_GRAPH_CARLA_PORT_AUDIO_IN1 -> connectedIn1
      [] carlaPort = RACK_GRAPH_CARLA_PORT_AUDIO_IN2 -> connectedIn2
      [] carlaPort = RACK_GRAPH_CARLA_PORT_AUDIO_OUT1 -> connectedOut1
      [] carlaPort = RACK_GRAPH_CARLA_PORT_AUDIO_OUT2 -> connectedOut2
      [] OTHER -> <<>>

\* the connect names a valid Carla audio port and an external port of its
\* group that the port's vector already holds
AlreadyConnected(a) ==
    LET s == RackSplit(a[1][1], a[1][2], a[2][1], a[2][2]) IN
    /\ s.ok
    /\ RackIsAudioPort(s.carlaPort)
    /\ s.otherGroup = RackExpectedGroup(s.carlaPort)
    /\ Contains(VectorOf(s.carlaPort), s.otherPort)

UnknownIdDisconnectReported ==
    (isRack /\ lastOp.op = "disconnect" /\ ~lastOp.found)
        => /\ ~lastOp.ok
           /\ lastOp.err = "Failed to find connection"
           /\ callbacks = <<>>

\* a Rack connect whose groups are not one Carla and one other, or whose
\* Carla port or other group is out of range
InvalidRackArg(a) ==
    LET s == RackSplit(a[1][1], a[1][2], a[2][1], a[2][2]) IN
    ~s.ok \/ ~RackEndpointsInRange(s)

\* a Patchbay connect with a port id outside the encoded range
InvalidPatchbayArg(a) ==
    ~adjustPatchbayPortIdForJuce(a[1][2]).ok \/ ~adjustPatchbayPortIdForJuce(a[2][2]).ok

\* C14: patchbayConnect with an invalid argument returns false and sets
\* lastError
InvalidConnectSetsLastError ==
    [][/\ \A a \in RackConnectArgs :
            (isRack /\ InvalidRackArg(a) /\ RackConnect(a[1][1], a[1][2], a[2][1], a[2][2]))
            => (~lastOp'.ok /\ lastOp'.err # "")
       /\ \A a \in PatchbayConnectArgs :
            (~isRack /\ InvalidPatchbayArg(a)
                /\ PatchbayConnect(a[1][1], a[1][2], a[2][1], a[2][2]))
            => (~lastOp'.ok /\ lastOp'.err # "")]_vars

\* the external group the spec pairs with each Carla port
MatchingGroup(carlaPort) ==
    CASE carlaPort = RACK_GRAPH_CARLA_PORT_AUDIO_IN1 -> RACK_GRAPH_GROUP_AUDIO_IN
      [] carlaPort = RACK_GRAPH_CARLA_PORT_AUDIO_IN2 -> RACK_GRAPH_GROUP_AUDIO_IN
      [] carlaPort = RACK_GRAPH_CARLA_PORT_AUDIO_OUT1 -> RACK_GRAPH_GROUP_AUDIO_OUT
      [] carlaPort = RACK_GRAPH_CARLA_PORT_AUDIO_OUT2 -> RACK_GRAPH_GROUP_AUDIO_OUT
      [] carlaPort = RACK_GRAPH_CARLA_PORT_MIDI_IN -> RACK_GRAPH_GROUP_MIDI_IN
      [] carlaPort = RACK_GRAPH_CARLA_PORT_MIDI_OUT -> RACK_GRAPH_GROUP_MIDI_OUT
      [] OTHER -> RACK_GRAPH_GROUP_MAX

\* one registry entry has exactly one endpoint in group Carla and the other
\* in the group that matches the Carla port
EntryWellFormed(c) ==
    /\ (c.groupA = RACK_GRAPH_GROUP_CARLA) # (c.groupB = RACK_GRAPH_GROUP_CARLA)
    /\ IF c.groupA = RACK_GRAPH_GROUP_CARLA
       THEN c.groupB = MatchingGroup(c.portA)
       ELSE c.groupA = MatchingGroup(c.portB)

\* C15: every connection of a rack registry, added by connect or rebuilt by
\* patchbayRefresh, has exactly one endpoint in group Carla and the other in
\* the external group matching that Carla port
RackEntriesWellFormed ==
    isRack => \A i \in 1..Len(connList) : EntryWellFormed(connList[i])

\* a refresh has rebuilt the entry of a connection that connect had made
RackRegistryRebuilt ==
    /\ isRack /\ lastOp.op = "refresh"
    /\ Len(connList) > 0
    /\ connList[1].id > 1

\* what the claim asks of the state after removePlugin took node a out
RemovedNodeGone(a) ==
    /\ \A i \in 1..Len(connList') : ~TouchesGroup(connList'[i], a)
    /\ \A e \in edges' : e[1] # a /\ e[3] # a
    /\ \A k \in 1..Len(PatchbayGetConnections') : PatchbayGetConnections'[k][1] # a
    /\ \A i \in 1..Len(connList) :
          ~TouchesGroup(connList[i], a) => \E j \in 1..Len(connList') : connList'[j] = connList[i]

\* C16: after removePlugin(A) no registry entry and no graph edge touches A's
\* node, getPatchbayConnections lists no connection touching A, and every
\* other connection is still registered under its id
RemovedPluginLeavesNoConnection ==
    [][(~isRack /\ lastOp'.op = "removePlugin") => RemovedNodeGone(lastOp'.id)]_vars

\* C17: replacePlugin puts the new instance under the node id the old plugin
\* had, and changes no other plugin's node id
ReplaceKeepsNodeId ==
    [][(~isRack /\ lastOp'.op = "replacePlugin")
        => /\ Len(plugins') = Len(plugins)
           /\ \A i \in 1..Len(plugins) : plugins'[i].nodeId = plugins[i].nodeId]_vars

\* a name decodes to the endpoint (group g, port p)
DecodesTo(name, g, p) ==
    LET r == getGroupAndPortIdFromFullName(name)
    IN r.ok /\ r.group = g /\ r.port = p

\* C19: on a rack, each full port name getConnections emits for a registry
\* entry is decoded by getGroupAndPortIdFromFullName to the (group, port) it
\* was built from
EmittedNamesDecode ==
    isRack =>
        \A i \in 1..Len(connList) :
            LET c == connList[i]
                s == RackSplit(c.groupA, c.portA, c.groupB, c.portB)
                n == RackConnectionNames(c)
                carlaFirst == s.carlaPort \in {RACK_GRAPH_CARLA_PORT_AUDIO_OUT1,
                                              RACK_GRAPH_CARLA_PORT_AUDIO_OUT2,
                                              RACK_GRAPH_CARLA_PORT_MIDI_OUT}
                carla == IF carlaFirst THEN n[1] ELSE n[2]
                other == IF carlaFirst THEN n[2] ELSE n[1]
            IN n # <<>> =>
                /\ DecodesTo(carla, RACK_GRAPH_GROUP_CARLA, s.carlaPort)
                /\ DecodesTo(other, s.otherGroup, s.otherPort)

\* how many registry entries of a list have the endpoints e, in order
EndpointCount(list, e) ==
    Cardinality({i \in 1..Len(list) :
        <<list[i].groupA, list[i].portA, list[i].groupB, list[i].portB>> = e})

SameEndpointMultiset(l1, l2) ==
    /\ Len(l1) = Len(l2)
    /\ \A i \in 1..Len(l1) :
          LET e == <<l1[i].groupA, l1[i].portA, l1[i].groupB, l1[i].portB>>
          IN EndpointCount(l1, e) = EndpointCount(l2, e)

\* C20: a refreshConnections that directly follows another leaves the
\* registry with the same multiset of (groupA, portA, groupB, portB) as the
\* first left; only the ids may differ
RefreshTwiceSameEndpoints ==
    [][(~isRack /\ lastOp.op = "refresh" /\ lastOp.ok
            /\ lastOp'.op = "refresh" /\ lastOp'.ok)
        => SameEndpointMultiset(connList, connList')]_vars

\* a second refresh in a row has rebuilt a registry of two connections under
\* new ids
RefreshedTwice ==
    /\ ~isRack /\ lastOp.op = "refresh" /\ lastOp.ok /\ lastOp.id = 1
    /\ Len(connList) = 2
    /\ connList[1].id > 4

\* C21: lastId never decreases, a refresh included, and every ConnectionId a
\* call puts into the registry or announces is greater than every id issued
\* before the call
LastIdMonotone ==
    [][/\ lastId' >= lastId
       /\ \A i \in 1..Len(connList') :
             (\A j \in 1..Len(connList) : connList[j] # connList'[i])
                => connList'[i].id > lastId
       /\ \A k \in 1..Len(callbacks') :
             callbacks'[k].op = "ConnectionAdded" => callbacks'[k].id > lastId]_vars

\* a refresh has rebuilt a registry whose ids are all above the last id a
\* connect had issued
RefreshIssuedHigherIds ==
    /\ lastOp.op = "refresh" /\ lastOp.ok
    /\ Len(issued) > 0 /\ Len(connList) > 0
    /\ \A i \in 1..Len(connList) : connList[i].id > issued[Len(issued)]

(***************************************************************************)
(* SpecBlock: one audio block of a rack, as a function of its connection   *)
(* vectors, its plugin chain and the device's input                        *)
(***************************************************************************)
\* connection vectors a rack can hold after connect calls: empty, one port id
\* from 0 to one past the device's channels, or two valid ports
PortVectors(n) ==
    {<<>>} \cup {<<p>> : p \in 0..(n + 1)} \cup {v \in (1..n) \X (1..n) : v[1] < v[2]}
ValidPortVectors(n) == {<<>>} \cup {<<p>> : p \in 1..n}

PluginSlots == [kind : PluginKinds, enabled : BOOLEAN, lockable : BOOLEAN]
PluginChains == UNION {[1..n -> PluginSlots] : n \in 0..MaxChain}

InitBlock ==
    /\ isRack = TRUE
    /\ connectedIn1 \in PortVectors(Inputs)
    /\ connectedIn2 \in ValidPortVectors(Inputs)
    /\ connectedOut1 \in PortVectors(Outputs)
    /\ connectedOut2 \in ValidPortVectors(Outputs)
    /\ midiIns = DevicePorts(RACK_GRAPH_GROUP_MIDI_IN, MidiInDevices)
    /\ midiOuts = DevicePorts(RACK_GRAPH_GROUP_MIDI_OUT, MidiOutDevices)
    /\ fMidiIns = <<>> /\ fMidiOuts = <<>>
    /\ connList = WithIds(RackRefreshEndpoints(midiIns, midiOuts), 0)
    /\ lastId = Len(connList)
    /\ lastOp = OpRec("init", TRUE, 0, FALSE, "")
    /\ callbacks = <<>>
    /\ issued = <<>>
    /\ plainSeq = FALSE
    /\ nodes = <<>> /\ lastNodeId = 0 /\ edges = {} /\ plugins = <<>>
    /\ ignorePathbay = FALSE
    /\ deviceIn \in [0..(Inputs - 1) -> [1..BlockFrames -> 0..MaxSample]]
    /\ deviceOut = [c \in 0..(Outputs - 1) |-> Zeros]
    /\ rackPlugins \in PluginChains
    /\ eventsIn \in {<<>>, <<"note">>}
    /\ eventsOut = <<>>
    /\ peaks = [i \in 1..Len(rackPlugins) |-> [ins |-> <<0, 0>>, outs |-> <<0, 0>>]]
    /\ blockPc = "idle"
    /\ RtIdle

NextBlock == AudioBlock

SpecBlock == InitBlock /\ [][NextBlock]_vars

\* C6: with no plugins and the connections AudioIn:1 -> Carla:AudioIn1 and
\* Carla:AudioOut1 -> AudioOut:1, after one block device output 1 equals
\* device input 1 sample for sample and device output 2 is all zero
PassthroughS1 ==
    (/\ blockPc = "done"
     /\ rackPlugins = <<>>
     /\ connectedIn1 = <<1>> /\ connectedIn2 = <<>>
     /\ connectedOut1 = <<1>> /\ connectedOut2 = <<>>)
    => /\ deviceOut[0] = deviceIn[0]
       /\ deviceOut[1] = Zeros

\* plugin i takes part in the block
Processed(i) == rackPlugins[i].enabled /\ rackPlugins[i].lockable

\* the two channels that reach the input of plugin i: the rack's input, or
\* what the plugins before it left
RECURSIVE SignalAt(_)
SignalAt(i) ==
    IF i = 1
    THEN [ch |-> <<ConnectInput(connectedIn1, deviceIn, Zeros, TRUE),
                   ConnectInput(connectedIn2, deviceIn, Zeros, TRUE)>>, ev |-> <<>>]
    ELSE LET prev == SignalAt(i - 1)
             kind == rackPlugins[i - 1].kind
             w == PluginProcess(kind, prev.ch[1], prev.ch[2], prev.ev)
         IN IF ~Processed(i - 1) THEN prev
            ELSE IF kind.audioIn = 0
            THEN [ch |-> <<[f \in 1..BlockFrames |-> prev.ch[1][f] + w.out0[f]],
                           [f \in 1..BlockFrames |-> prev.ch[2][f] + w.out1[f]]>>, ev |-> <<>>]
            ELSE [ch |-> <<w.out0, w.out1>>, ev |-> <<>>]

\* the last plugin of the chain that takes part in the block, 0 if none does
LastProcessed ==
    IF \E i \in 1..Len(rackPlugins) : Processed(i)
    THEN CHOOSE i \in 1..Len(rackPlugins) :
            Processed(i) /\ \A j \in (i + 1)..Len(rackPlugins) : ~Processed(j)
    ELSE 0

\* C18: when an enabled plugin without audio inputs is processed, the chain
\* output after it is the signal at its input plus what the plugin wrote;
\* the device output of the block is that sum routed through the output
\* connections
NoInputPluginAddsInput ==
    (blockPc = "done" /\ LastProcessed > 0
        /\ rackPlugins[LastProcessed].kind.audioIn = 0)
    => LET i == LastProcessed
           in == SignalAt(i)
           w == PluginProcess(rackPlugins[i].kind, in.ch[1], in.ch[2], <<>>)
           out0 == [f \in 1..BlockFrames |-> in.ch[1][f] + w.out0[f]]
           out1 == [f \in 1..BlockFrames |-> in.ch[2][f] + w.out1[f]]
       IN deviceOut =
            ConnectOutput(connectedOut2,
                ConnectOutput(connectedOut1, [c \in 0..(Outputs - 1) |-> Zeros], out0), out1)

\* a generator processed after a pass-through plugin, with a signal on the
\* rack's first input and the first output connected
GeneratorAfterThruHeard ==
    /\ blockPc = "done"
    /\ Len(rackPlugins) = 2 /\ Processed(1) /\ Processed(2)
    /\ rackPlugins[1].kind.audioIn > 0 /\ rackPlugins[2].kind.audioIn = 0
    /\ connectedIn1 = <<1>> /\ connectedOut1 = <<1>>
    /\ deviceIn[1] # Zeros
    /\ \E f \in 1..BlockFrames : deviceOut[0][f] > 1

(***************************************************************************)
(* SpecDrain: the MIDI-in drain of one block, as a function of the queued  *)
(* events and the block's frame base                                       *)
(***************************************************************************)
\* what the staging list can hold: up to PoolSize events, each with its own
\* data and a time stamp up to MaxTime
QueuedEvents ==
    UNION {{[i \in 1..n |-> RtMidiEvent(t[i], i)] : t \in [1..n -> 0..MaxTime]} :
           n \in 0..PoolSize}

\* the state Init leaves the rack in
RackAfterInit ==
    /\ isRack = TRUE
    /\ connList = <<>>
    /\ lastId = 0
    /\ connectedIn1 = <<>> /\ connectedIn2 = <<>>
    /\ connectedOut1 = <<>> /\ connectedOut2 = <<>>
    /\ midiIns = DevicePorts(RACK_GRAPH_GROUP_MIDI_IN, MidiInDevices)
    /\ midiOuts = DevicePorts(RACK_GRAPH_GROUP_MIDI_OUT, MidiOutDevices)
    /\ fMidiIns = <<>> /\ fMidiOuts = <<>>
    /\ lastOp = OpRec("init", TRUE, 0, FALSE, "")
    /\ callbacks = <<>>
    /\ issued = <<>>
    /\ plainSeq = TRUE
    /\ nodes = <<>> /\ lastNodeId = 0 /\ edges = {} /\ plugins = <<>>
    /\ ignorePathbay = FALSE

InitDrain ==
    /\ RackAfterInit
    /\ BlockIdle
    /\ fIsReady = TRUE
    /\ audioBufs = "allocated"
    /\ bufsTorn = FALSE
    /\ dataPending \in QueuedEvents
    /\ stagingMutex = "free"
    /\ audioMutex = "free"
    /\ midiOutMutex = "free"
    /\ timeFrame \in 0..MaxFrame
    /\ produced = Len(dataPending)
    /\ ctlPc = NoCall
    /\ skippedWith = {}

NextDrain ==
    \/ \E numSamples \in CallbackSizes : CallbackEnter(numSamples)
    \/ CallbackDrain

SpecDrain == InitDrain /\ [][NextDrain]_vars

RTConnectArgs ==
    {<< <<RACK_GRAPH_GROUP_AUDIO_IN, 1>>,
        <<RACK_GRAPH_GROUP_CARLA, RACK_GRAPH_CARLA_PORT_AUDIO_IN1>> >>,
     << <<RACK_GRAPH_GROUP_CARLA, RACK_GRAPH_CARLA_PORT_AUDIO_OUT1>>,
        <<RACK_GRAPH_GROUP_AUDIO_OUT, 1>> >>,
     << <<RACK_GRAPH_GROUP_CARLA, RACK_GRAPH_CARLA_PORT_MIDI_OUT>>,
        <<RACK_GRAPH_GROUP_MIDI_OUT, 1>> >>}

InitRT ==
    /\ RackAfterInit
    /\ deviceIn = [c \in 0..(Inputs - 1) |-> [f \in 1..BlockFrames |-> MaxSample]]
    /\ deviceOut = [c \in 0..(Outputs - 1) |-> Zeros]
    /\ rackPlugins = <<[kind |-> CHOOSE k \in PluginKinds : k.name = "thru",
                        enabled |-> TRUE, lockable |-> TRUE]>>
    /\ eventsIn = <<>>
    /\ eventsOut = <<>>
    /\ peaks = <<[ins |-> <<0, 0>>, outs |-> <<0, 0>>]>>
    /\ blockPc = "idle"
    /\ RtIdle

NextRT ==
    \/ \E numSamples \in CallbackSizes : CallbackEnter(numSamples)
    \/ CallbackDrain
    \/ GraphProcess
    \/ HelperLock
    \/ HelperRun
    \/ CallbackMidiOut
    \/ ProducerLock
    \/ ProducerAppend
    \/ \E a \in RTConnectArgs : CtlConnectLock(a)
    \/ CtlConnectSwitch
    \/ CtlConnectDone
    \/ \E id \in 1..MaxId : CtlDisconnectLock(id)
    \/ CtlDisconnectSwitch
    \/ CtlDisconnectDone
    \/ SetBufferSizeBegin
    \/ SetBufferSizeFree
    \/ SetBufferSizeAlloc
    \/ SetBufferSizeEnd

SpecRT == InitRT /\ [][NextRT]_vars

\* C1: the audio callback never stands at a lock whose mutex another thread
\* holds
AudioThreadNeverWaits ==
    /\ ~(blockPc = "helper_lock" /\ audioMutex = "control")
    /\ ~(blockPc = "midiout_lock" /\ midiOutMutex = "control")

\* the step of the drain that found the staging mutex free
DrainStep == blockPc = "drain" /\ blockPc' = "process" /\ stagingMutex = "free"

NoProcessWhileNotReady ==
    [][(~fIsReady /\ blockPc' # blockPc)
            => (blockPc' \notin {"helper_lock", "helper"} /\ blockPc # "helper")]_vars

\* the four connection vectors processHelper routes by
AudioVectors == <<connectedIn1, connectedIn2, connectedOut1, connectedOut2>>

\* a control-thread call has changed a connection vector and released
\* audio.mutex, but has not returned yet
VectorCallInFlight ==
    /\ ctlPc.op \in {"connect_made", "disconnect_made"}
    /\ IF ctlPc.op = "connect_made" THEN TakesAudioMutex(ctlPc.args)
       ELSE TakesAudioMutex(EntryArgs(ctlPc.args[1]))

\* C22 as stated: the vectors processHelper uses are exactly those the last
\* completed control-thread call left, so no block runs processHelper while a
\* call that already changed a vector is still on its way to returning
BlockUsesCompletedCallVectors ==
    ~(blockPc = "helper" /\ VectorCallInFlight)

\* C22: while processHelper runs no step changes a connection vector, and the
\* block is routed by the vectors as they stand then, which hold the change
\* of every connect and disconnect that returned before, and that of a call
\* that has released audio.mutex and not yet returned
BlockSeesStableVectors ==
    [][/\ blockPc = "helper" => UNCHANGED AudioVectors
       /\ (blockPc = "helper" /\ blockPc' # "helper" /\ ~bufsTorn /\ audioBufs = "allocated")
            => deviceOut' = RackProcessHelper(deviceIn, deviceOut, eventsIn).outBuf]_vars

\* a block went through processHelper after a connect into Carla:AudioIn1 and
\* one out of Carla:AudioOut1 had returned, and the device input reached the
\* device output
BlockHeardConnections ==
    /\ blockPc = "midiout_lock"
    /\ ctlPc = NoCall
    /\ lastOp.op = "connect" /\ lastOp.ok
    /\ connectedIn1 # <<>> /\ connectedOut1 # <<>>
    /\ deviceOut[0] # Zeros

\* C23: from the drain to the end of the block the events in events.in are
\* in non-decreasing time order, and events with equal time are in the order
\* in which the producer appended them (the data of an event is its arrival
\* number)
DrainedInTimeOrder ==
    blockPc \in {"process", "helper_lock", "helper", "midiout_lock"} =>
        \A i \in 1..Len(eventsIn) : \A j \in (i + 1)..Len(eventsIn) :
            /\ eventsIn[i].time <= eventsIn[j].time
            /\ eventsIn[i].time = eventsIn[j].time => eventsIn[i].data < eventsIn[j].data

\* a drain has written two events of one block
TwoEventsDrained ==
    /\ blockPc = "process"
    /\ Len(eventsIn) >= 2

\* C24: after a callback whose nframes differs from the engine's bufferSize
\* every output channel is zero
MismatchedBlockIsSilent ==
    blockPc = "rejected" => \A c \in 0..(Outputs - 1) : deviceOut[c] = Zeros

\* C25: a patchbayRefresh call with external = TRUE returns false, leaves the
\* connection registry as it was and sends the host no callback
ExternalRefreshRejected ==
    [][((\E devs \in DeviceLists : PatchbayRefreshRack(TRUE, devs)) \/ PatchbayRefresh(TRUE))
          => /\ ~lastOp'.ok
             /\ UNCHANGED regVars
             /\ callbacks' = <<>>]_vars

\* the ids of the registry entries
RegistryIds(list) == {list[i].id : i \in 1..Len(list)}

\* how many callbacks of one call carry this operation and id
CallbackCount(cbs, op, id) ==
    Cardinality({k \in 1..Len(cbs) : cbs[k].op = op /\ cbs[k].id = id})

\* C26: a successful connect sends exactly one PatchbayConnectionAdded, with the
\* id it returns and the "gA:pA:gB:pB" of the entry it stored; every
\* ConnectionAdded names an id never handed out before, so an id is announced
\* once; a PatchbayConnectionRemoved names an id that was in the registry, which
\* only announced ids are, is sent once, and the call that sends it takes the id
\* out of the registry, so it can never be sent for that id again
ConnectionCallbackProtocol ==
    [][/\ (lastOp'.op = "connect" /\ lastOp'.ok)
            => /\ Len(callbacks') = 1
               /\ callbacks'[1].op = "ConnectionAdded"
               /\ callbacks'[1].id = lastOp'.id
       /\ \A k \in 1..Len(callbacks') :
            /\ callbacks'[k].op = "ConnectionAdded"
                 => /\ callbacks'[k].id > lastId
                    /\ CallbackCount(callbacks', "ConnectionAdded", callbacks'[k].id) = 1
                    /\ \E i \in 1..Len(connList') :
                         /\ connList'[i].id = callbacks'[k].id
                         /\ callbacks'[k].payload =
                              Payload(connList'[i].groupA, connList'[i].portA,
                                      connList'[i].groupB, connList'[i].portB)
            /\ callbacks'[k].op = "ConnectionRemoved"
                 => /\ callbacks'[k].id \in RegistryIds(connList)
                    /\ callbacks'[k].id \notin RegistryIds(connList')
                    /\ CallbackCount(callbacks', "ConnectionRemoved", callbacks'[k].id) = 1
       /\ \A id \in RegistryIds(connList') \ RegistryIds(connList) :
            CallbackCount(callbacks', "ConnectionAdded", id) = 1]_vars

\* a plugin removal has just taken a connection out of the registry and told
\* the host so
GroupDisconnectAnnounced ==
    /\ lastOp.op \in {"removePlugin", "replacePlugin"}
    /\ \E k \in 1..Len(callbacks) : callbacks[k].op = "ConnectionRemoved"

\* C27: the pending MIDI-in events never outnumber the pool, and they are the
\* most recent messages in arrival order: when an append finds the pool full
\* the oldest pending events are the ones given up (messages are numbered by
\* arrival in their data)
PendingAreMostRecent ==
    /\ Len(dataPending) <= PoolSize
    /\ \A i \in 1..Len(dataPending) :
         dataPending[i].data = produced - Len(dataPending) + i

\* the pool has overflowed: the first message is gone, the last PoolSize wait
PoolOverflowed ==
    /\ Len(dataPending) = PoolSize
    /\ produced = PoolSize + 1
    /\ dataPending[1].data = 2

\* the sum, sample by sample, of the device channels the ports of a vector
\* name, port p standing for device channel p (index p - 1)
RECURSIVE SumOfNamedChannels(_, _)
SumOfNamedChannels(list, buf) ==
    IF Len(list) = 0 THEN Zeros
    ELSE IF Head(list) \in 1..Inputs
    THEN VecAdd(buf[Head(list) - 1], SumOfNamedChannels(Tail(list), buf))
    ELSE SumOfNamedChannels(Tail(list), buf)

\* a rack of one pass-through plugin whose two outputs go to device outputs 1
\* and 2: after the block the device outputs show what was staged as input
StagedInputHeard ==
    /\ blockPc = "done"
    /\ Len(rackPlugins) = 1
    /\ rackPlugins[1].kind.name = "thru"
    /\ rackPlugins[1].enabled /\ rackPlugins[1].lockable
    /\ connectedOut1 = <<1>> /\ connectedOut2 = <<2>>

\* C28: the input staged for Carla channel c is the sum of the device input
\* channels named by the ports of connectedIn<c>, port p reading device
\* channel p, and silence when the vector is empty
StagedInputIsSumOfPorts ==
    StagedInputHeard
        => /\ deviceOut[0] = SumOfNamedChannels(connectedIn1, deviceIn)
           /\ deviceOut[1] = SumOfNamedChannels(connectedIn2, deviceIn)

\* how often port q occurs in a connection vector
Occurrences(list, q) == Cardinality({k \in 1..Len(list) : list[k] = q})

\* n times a buffer, sample by sample
Times(n, buf) == [f \in 1..BlockFrames |-> n * buf[f]]

\* the rack's left and right output for the block that has just run
BlockRackOutput ==
    RackProcess(ConnectInput(connectedIn1, deviceIn, Zeros, TRUE),
                ConnectInput(connectedIn2, deviceIn, Zeros, TRUE), <<>>)

\* C29: after a rack block device output channel q holds the rack's left
\* output once for every occurrence of q in connectedOut1 plus the right output
\* once for every occurrence of q in connectedOut2; a channel in neither vector
\* is all zero
DeviceOutputIsSumOfRackOutputs ==
    blockPc = "done"
        => \A q \in 1..Outputs :
              deviceOut[q - 1] =
                  VecAdd(Times(Occurrences(connectedOut1, q), BlockRackOutput.out0),
                         Times(Occurrences(connectedOut2, q), BlockRackOutput.out1))

\* both rack outputs were mixed into device output 1 and device output 2,
\* connected to nothing, stayed silent
BothRackOutputsMixed ==
    /\ blockPc = "done"
    /\ connectedOut1 = <<1>> /\ connectedOut2 = <<1>>
    /\ \E f \in 1..BlockFrames : deviceOut[0][f] = 2
    /\ deviceOut[1] = Zeros

\* C30: in a rack block the first plugin processed is fed the staged Carla
\* input and every later one the output of the plugin processed before it
\* (seen in the input peaks each plugin records and in what leaves the chain);
\* a plugin that is disabled or whose tryLock fails is passed over: its peaks
\* stay, and a chain in which nothing is processed leaves the event buffers as
\* they were and the device outputs silent
ChainFeedsEachPluginThePrevious ==
    [][AudioBlock =>
        LET n == Len(rackPlugins)
            out == SignalAt(n + 1)
        IN /\ \A i \in 1..n :
                IF Processed(i)
                THEN rackPlugins[i].kind.audioIn > 0
                        => peaks'[i].ins = <<Peak(SignalAt(i).ch[1]), Peak(SignalAt(i).ch[2])>>
                ELSE peaks'[i] = peaks[i]
           /\ IF LastProcessed > 0
              THEN deviceOut' =
                     ConnectOutput(connectedOut2,
                         ConnectOutput(connectedOut1, [c \in 0..(Outputs - 1) |-> Zeros],
                                       out.ch[1]), out.ch[2])
              ELSE /\ deviceOut' = [c \in 0..(Outputs - 1) |-> Zeros]
                   /\ eventsIn' = eventsIn
                   /\ eventsOut' = eventsOut]_vars

\* a disabled plugin ahead of a pass-through one: the second plugin was the
\* first to be processed and passed the staged input on to device output 1
SkippedThenProcessed ==
    /\ blockPc = "done"
    /\ Len(rackPlugins) = 2 /\ ~rackPlugins[1].enabled /\ Processed(2)
    /\ rackPlugins[2].kind.name = "thru"
    /\ connectedIn1 = <<1>> /\ connectedOut1 = <<1>> /\ connectedOut2 = <<>>
    /\ deviceIn[1] # Zeros
    /\ deviceOut[0] = deviceIn[1]
    /\ peaks[2].ins[1] = 1
    /\ peaks[1].ins = <<0, 0>>

(***************************************************************************)
(* SpecEvents: the event buffers of one rack block, over chains that may   *)
(* hold a plugin with an output parameter                                  *)
(***************************************************************************)
EventPluginSlots ==
    [kind : PluginKinds \cup {ControlOutputKind}, enabled : BOOLEAN, lockable : BOOLEAN]
EventPluginChains == UNION {[1..n -> EventPluginSlots] : n \in 0..MaxChain}

InitEvents ==
    /\ isRack = TRUE
    /\ connectedIn1 = <<>> /\ connectedIn2 = <<>>
    /\ connectedOut1 = <<>> /\ connectedOut2 = <<>>
    /\ midiIns = DevicePorts(RACK_GRAPH_GROUP_MIDI_IN, MidiInDevices)
    /\ midiOuts = DevicePorts(RACK_GRAPH_GROUP_MIDI_OUT, MidiOutDevices)
    /\ fMidiIns = <<>> /\ fMidiOuts = <<>>
    /\ connList = WithIds(RackRefreshEndpoints(midiIns, midiOuts), 0)
    /\ lastId = Len(connList)
    /\ lastOp = OpRec("init", TRUE, 0, FALSE, "")
    /\ callbacks = <<>>
    /\ issued = <<>>
    /\ plainSeq = FALSE
    /\ nodes = <<>> /\ lastNodeId = 0 /\ edges = {} /\ plugins = <<>>
    /\ ignorePathbay = FALSE
    /\ deviceIn = [c \in 0..(Inputs - 1) |-> Zeros]
    /\ deviceOut = [c \in 0..(Outputs - 1) |-> Zeros]
    /\ rackPlugins \in EventPluginChains
    /\ eventsIn \in {<<>>, <<"note">>}
    /\ eventsOut = <<>>
    /\ peaks = [i \in 1..Len(rackPlugins) |-> [ins |-> <<0, 0>>, outs |-> <<0, 0>>]]
    /\ blockPc = "idle"
    /\ RtIdle

NextEvents == AudioBlock

SpecEvents == InitEvents /\ [][NextEvents]_vars

\* the merge of two event lists by time stamp; the events of a block carry no
\* stamp of their own here, so the first list's events stay ahead
MergedByTime(a, b) == a \o b

\* what the first of two processed plugins leaves in events.out
EventsOutAfterFirst ==
    PluginProcess(rackPlugins[1].kind, Zeros, Zeros, eventsIn).evOut

\* C31: for the second plugin processed in a rack block: when the first has no
\* MIDI output and the engine input holds events, its events.in is the merge
\* of events.in with what events.out held; otherwise its events.in is what the
\* first plugin left in events.out and events.out is cleared before it runs
SecondPluginEventInput ==
    [][(AudioBlock /\ Len(rackPlugins) = 2 /\ Processed(1) /\ Processed(2)) =>
        IF rackPlugins[1].kind.midiOut = 0 /\ Len(eventsIn) > 0
        THEN eventsIn' = MergedByTime(eventsIn, EventsOutAfterFirst)
        ELSE /\ eventsIn' = EventsOutAfterFirst
             /\ eventsOut' = PluginProcess(rackPlugins[2].kind, Zeros, Zeros,
                                           EventsOutAfterFirst).evOut]_vars

(***************************************************************************)
(* SpecNode: CarlaPluginInstance::processBlock, the node adapter the       *)
(* patchbay graph calls for every plugin of a block                        *)
(***************************************************************************)
\* what getDefaultEventInPort / getDefaultEventOutPort hand to the adapter: no
\* port, a port whose fBuffer is null, or a port with a buffer
EventPorts == {"none", "null", "buffer"}

\* the audio a node is called with: both channels silent or both at full scale
NodeSignals == {Zeros, [f \in 1..BlockFrames |-> MaxSample]}

\* processBlock of the node of engine plugin i (from 1).  A plugin's lock is
\* its `lockable` flag: FALSE while somebody holds it.  The returns after the
\* tryLock that do not reach fPlugin->unlock() leave it FALSE.
NodeProcessBlock(i, sig, inPort, outPort) ==
    /\ ~isRack
    /\ i \in 1..Len(rackPlugins)
    /\ LET plugin == rackPlugins[i]
           in == IF plugin.kind.audioIn = 0 THEN Zeros ELSE sig
           w == PluginProcess(plugin.kind, in, in, <<>>)
           held == [rackPlugins EXCEPT ![i].lockable = FALSE]
       IN IF ~plugin.enabled \/ ~plugin.lockable
          THEN /\ lastOp' = OpRec("processBlock", FALSE, i, FALSE, "")
               /\ UNCHANGED <<rackPlugins, peaks>>
          ELSE IF inPort = "null"
          THEN /\ rackPlugins' = held
               /\ lastOp' = OpRec("processBlock", FALSE, i, TRUE, "")
               /\ UNCHANGED peaks
          ELSE IF outPort = "null"
          THEN /\ rackPlugins' = held
               /\ peaks' = [peaks EXCEPT ![i] = [ins |-> <<Peak(in), Peak(in)>>,
                                                 outs |-> <<Peak(w.out0), Peak(w.out1)>>]]
               /\ lastOp' = OpRec("processBlock", FALSE, i, TRUE, "")
          ELSE /\ peaks' = [peaks EXCEPT ![i] = [ins |-> <<Peak(in), Peak(in)>>,
                                                 outs |-> <<Peak(w.out0), Peak(w.out1)>>]]
               /\ lastOp' = OpRec("processBlock", TRUE, i, TRUE, "")
               /\ UNCHANGED rackPlugins
    /\ callbacks' = <<>>
    /\ UNCHANGED <<isRack, regVars, rackVars, issued, plainSeq, pbVars,
                   deviceIn, deviceOut, eventsIn, eventsOut, blockPc, rtVars>>

\* a patchbay that holds the plugins of rackPlugins, each behind its node
InitNode ==
    /\ isRack = FALSE
    /\ connList = <<>>
    /\ lastId = 0
    /\ connectedIn1 = <<>> /\ connectedIn2 = <<>>
    /\ connectedOut1 = <<>> /\ connectedOut2 = <<>>
    /\ midiIns = <<>> /\ midiOuts = <<>>
    /\ fMidiIns = <<>> /\ fMidiOuts = <<>>
    /\ lastOp = OpRec("init", TRUE, 0, FALSE, "")
    /\ callbacks = <<>>
    /\ issued = <<>>
    /\ plainSeq = FALSE
    /\ rackPlugins \in PluginChains
    /\ \E shape \in PluginShapes :
         /\ plugins = [k \in 1..Len(rackPlugins) |->
                          [nodeId |-> FirstNodeId + 3 + k, shape |-> shape]]
         /\ nodes = BuiltinNodes @@
                    [id \in {FirstNodeId + 3 + k : k \in 1..Len(rackPlugins)} |->
                        PluginNode(shape, id - FirstNodeId - 4)]
    /\ lastNodeId = FirstNodeId + 3 + Len(rackPlugins)
    /\ edges = {}
    /\ ignorePathbay = FALSE
    /\ deviceIn = [c \in 0..(Inputs - 1) |-> Zeros]
    /\ deviceOut = [c \in 0..(Outputs - 1) |-> Zeros]
    /\ eventsIn = <<>>
    /\ eventsOut = <<>>
    /\ peaks = [k \in 1..Len(rackPlugins) |-> [ins |-> <<0, 0>>, outs |-> <<0, 0>>]]
    /\ blockPc = "idle"
    /\ RtIdle

NextNode ==
    \E i \in 1..MaxChain, sig \in NodeSignals, inPort \in EventPorts, outPort \in EventPorts :
        NodeProcessBlock(i, sig, inPort, outPort)

SpecNode == InitNode /\ [][NextNode]_vars

\* C32: a plugin whose tryLock the audio path won is unlocked before the
\* processing routine returns, on every path of the node adapter's
\* processBlock: no call leaves a plugin's lock held
ProcessBlockReleasesLock ==
    [][\A i \in 1..MaxChain, sig \in NodeSignals, inPort \in EventPorts,
          outPort \in EventPorts :
          NodeProcessBlock(i, sig, inPort, outPort)
              => rackPlugins'[i].lockable = rackPlugins[i].lockable]_vars

\* how many registry entries carry these endpoints
EntryCount(list, gA, pA, gB, pB) ==
    Cardinality({k \in 1..Len(list) :
                    /\ list[k].groupA = gA /\ list[k].portA = pA
                    /\ list[k].groupB = gB /\ list[k].portB = pB})

\* every element of an audio input vector has its one registry entry
InputVectorRegistered(vec, carlaPort) ==
    \A k \in 1..Len(vec) :
        EntryCount(connList, RACK_GRAPH_GROUP_AUDIO_IN, vec[k],
                   RACK_GRAPH_GROUP_CARLA, carlaPort) = Occurrences(vec, vec[k])

\* every element of an audio output vector has its one registry entry
OutputVectorRegistered(vec, carlaPort) ==
    \A k \in 1..Len(vec) :
        EntryCount(connList, RACK_GRAPH_GROUP_CARLA, carlaPort,
                   RACK_GRAPH_GROUP_AUDIO_OUT, vec[k]) = Occurrences(vec, vec[k])

\* the port id the rack announced for a device MIDI port
AnnouncedPort(devices, name) == CHOOSE i \in 1..Len(devices) : devices[i] = name

\* C33: after a rack refresh the registry holds exactly one entry, with the
\* right endpoints, for every element of the four audio connection vectors
\* and for every open device MIDI port, the one with the highest port id
\* included, and nothing else
RefreshRegistersEveryConnection ==
    (isRack /\ lastOp.op = "refresh" /\ lastOp.ok)
    => /\ InputVectorRegistered(connectedIn1, RACK_GRAPH_CARLA_PORT_AUDIO_IN1)
       /\ InputVectorRegistered(connectedIn2, RACK_GRAPH_CARLA_PORT_AUDIO_IN2)
       /\ OutputVectorRegistered(connectedOut1, RACK_GRAPH_CARLA_PORT_AUDIO_OUT1)
       /\ OutputVectorRegistered(connectedOut2, RACK_GRAPH_CARLA_PORT_AUDIO_OUT2)
       /\ \A k \in 1..Len(fMidiIns) :
            EntryCount(connList, RACK_GRAPH_GROUP_MIDI_IN,
                       AnnouncedPort(MidiInDevices, fMidiIns[k]),
                       RACK_GRAPH_GROUP_CARLA, RACK_GRAPH_CARLA_PORT_MIDI_IN) = 1
       /\ \A k \in 1..Len(fMidiOuts) :
            EntryCount(connList, RACK_GRAPH_GROUP_CARLA, RACK_GRAPH_CARLA_PORT_MIDI_OUT,
                       RACK_GRAPH_GROUP_MIDI_OUT,
                       AnnouncedPort(MidiOutDevices, fMidiOuts[k])) = 1
       /\ Len(connList) = Len(connectedIn1) + Len(connectedIn2) + Len(connectedOut1)
                          + Len(connectedOut2) + Len(fMidiIns) + Len(fMidiOuts)

(***************************************************************************)
(* SpecGraph: the life of EngineInternalGraph in rack mode: create,        *)
(* destroy and the three setters                                           *)
(***************************************************************************)
\* EngineInternalGraph::create(true, ...): a second create is refused by the
\* assert, before fIsReady is touched
GraphCreate ==
    /\ ctlPc = NoCall
    /\ IF audioBufs # "none"
       THEN /\ lastOp' = OpRec("create", FALSE, 0, FALSE, "")
            /\ UNCHANGED <<audioBufs, fIsReady>>
       ELSE /\ audioBufs' = "allocated"
            /\ fIsReady' = TRUE
            /\ lastOp' = OpRec("create", TRUE, 0, FALSE, "")
    /\ UNCHANGED <<isRack, regVars, rackVars, callbacks, issued, plainSeq, pbVars,
                   blockVars, bufsTorn, dataPending, stagingMutex, audioMutex,
                   midiOutMutex, timeFrame, produced, ctlPc, skippedWith>>

\* EngineInternalGraph::destroy
GraphDestroy ==
    /\ ctlPc = NoCall
    /\ IF ~fIsReady
       THEN /\ lastOp' = OpRec("destroy", FALSE, 0, FALSE, "")
            /\ UNCHANGED <<audioBufs, fIsReady>>
       ELSE /\ fIsReady' = FALSE
            /\ audioBufs' = "none"
            /\ lastOp' = OpRec("destroy", audioBufs # "none", 0, FALSE, "")
    /\ UNCHANGED <<isRack, regVars, rackVars, callbacks, issued, plainSeq, pbVars,
                   blockVars, bufsTorn, dataPending, stagingMutex, audioMutex,
                   midiOutMutex, timeFrame, produced, ctlPc, skippedWith>>

\* the calls whose body is one assert and, at most, one store in the graph
FlagSetters == {"setSampleRate", "setOffline"}

\* the arguments a host passes: offline or not (1 or 0), a sample rate in Hz
SetterArgs(op) == IF op = "setOffline" THEN {0, 1} ELSE {44100, 48000, 96000}

\* EngineInternalGraph::setSampleRate / setOffline: ScopedValueSetter clears
\* fIsReady; the argument is kept for the call's record
SetterBegin(op, arg) ==
    /\ isRack
    /\ ctlPc = NoCall
    /\ fIsReady' = FALSE
    /\ ctlPc' = [op |-> op, args |-> <<arg>>]
    /\ UNCHANGED <<topoVars, blockVars, audioBufs, bufsTorn, dataPending, stagingMutex,
                   audioMutex, midiOutMutex, timeFrame, produced, skippedWith>>

\* the setter returns, through the assert when fRack == nullptr or after
\* RackGraph::setOffline: the ScopedValueSetter's destructor stores true
SetterEnd ==
    /\ ctlPc.op \in FlagSetters
    /\ fIsReady' = TRUE
    /\ ctlPc' = NoCall
    /\ lastOp' = OpRec(ctlPc.op, audioBufs # "none", ctlPc.args[1], FALSE, "")
    /\ UNCHANGED <<isRack, regVars, rackVars, callbacks, issued, plainSeq, pbVars,
                   blockVars, audioBufs, bufsTorn, dataPending, stagingMutex,
                   audioMutex, midiOutMutex, timeFrame, produced, skippedWith>>

\* a constructed engine before init: no graph, isReady false
InitGraph ==
    /\ isRack = TRUE
    /\ connList = <<>>
    /\ lastId = 0
    /\ connectedIn1 = <<>> /\ connectedIn2 = <<>>
    /\ connectedOut1 = <<>> /\ connectedOut2 = <<>>
    /\ midiIns = <<>> /\ midiOuts = <<>>
    /\ fMidiIns = <<>> /\ fMidiOuts = <<>>
    /\ lastOp = OpRec("init", TRUE, 0, FALSE, "")
    /\ callbacks = <<>>
    /\ issued = <<>>
    /\ plainSeq = TRUE
    /\ nodes = <<>> /\ lastNodeId = 0 /\ edges = {} /\ plugins = <<>>
    /\ ignorePathbay = FALSE
    /\ BlockIdle
    /\ fIsReady = FALSE
    /\ audioBufs = "none"
    /\ bufsTorn = FALSE
    /\ dataPending = <<>>
    /\ stagingMutex = "free"
    /\ audioMutex = "free"
    /\ midiOutMutex = "free"
    /\ timeFrame = 0
    /\ produced = 0
    /\ ctlPc = NoCall
    /\ skippedWith = {}

NextGraph ==
    \/ GraphCreate
    \/ GraphDestroy
    \/ SetBufferSizeBegin
    \/ SetBufferSizeFree
    \/ SetBufferSizeAlloc
    \/ SetBufferSizeEnd
    \/ \E op \in FlagSetters : \E arg \in SetterArgs(op) : SetterBegin(op, arg)
    \/ SetterEnd

SpecGraph == InitGraph /\ [][NextGraph]_vars

\* C34: no call is in progress and isReady() answers true only while a graph
\* object exists: a setter called without a graph leaves isReady false, as it
\* was before the call
ReadyImpliesGraphExists ==
    (ctlPc = NoCall /\ fIsReady) => audioBufs # "none"

\* the registry entries that name group g at either end
EntriesOfGroup(list, g) ==
    {k \in 1..Len(list) : list[k].groupA = g \/ list[k].groupB = g}

\* C35: when a plugin node is removed or replaced with the patchbay in view,
\* disconnectGroup takes out of the registry every entry that names the node's
\* group at either end, consecutive ones too, and no other; it sends one
\* PatchbayConnectionRemoved for each and nothing for the entries that stay;
\* lastId is kept and the graph loses no edge but those of the removed node
DisconnectGroupRemovesExactlyTheGroup ==
    [][\A k \in 0..(MaxNodes - 1) :
          ((PatchbayRemovePlugin(k) \/ \E shape \in PluginShapes : PatchbayReplacePlugin(k, shape))
              /\ ~ignorePathbay)
          => LET g == plugins[k + 1].nodeId
                 gone == EntriesOfGroup(connList, g)
                 stay == (1..Len(connList)) \ gone
             IN /\ EntriesOfGroup(connList', g) = {}
                /\ Len(connList') = Cardinality(stay)
                /\ \A i \in stay : \E j \in 1..Len(connList') : connList'[j] = connList[i]
                /\ \A i \in gone :
                      CallbackCount(callbacks', "ConnectionRemoved", connList[i].id) = 1
                /\ \A i \in stay :
                      CallbackCount(callbacks', "ConnectionRemoved", connList[i].id) = 0
                /\ lastId' = lastId
                /\ edges' = {e \in edges : e[1] # g /\ e[3] # g}]_vars

\* a plugin with two connections, one after the other in the registry, was
\* removed and both were reported
TwoConsecutiveEntriesRemoved ==
    /\ lastOp.op \in {"removePlugin", "replacePlugin"}
    /\ connList = <<>>
    /\ CallbackCount(callbacks, "ConnectionRemoved", 1) = 1
    /\ CallbackCount(callbacks, "ConnectionRemoved", 2) = 1

\* C36: a drain that gets the mutex writes the first K = kMaxEngineEventInternalCount
\* queued events, in order, into events.in and no more, so it never writes
\* past the array; the events behind them are given up, not kept for the next
\* block: the staging lists are empty when the drain is over
DrainWritesAtMostK ==
    [][(CallbackDrain /\ stagingMutex = "free")
          => /\ Len(eventsIn') <= kMaxEngineEventInternalCount
             /\ Len(eventsIn') = Min(Len(dataPending), kMaxEngineEventInternalCount)
             /\ \A k \in 1..Len(eventsIn') : eventsIn'[k].data = dataPending[k].data
             /\ dataPending' = <<>>]_vars

\* more events were queued than the array holds: K were written, the rest is gone
ExcessEventsDropped ==
    /\ blockPc = "process"
    /\ produced > kMaxEngineEventInternalCount
    /\ Len(eventsIn) = kMaxEngineEventInternalCount
    /\ dataPending = <<>>

\* the graph nodes that stand for plugins
PluginNodeIds(ns) == {n \in DOMAIN ns : ns[n].isPlugin}

\* C37: after removePlugin of the plugin with id k the plugin nodes that remain
\* carry dense pluginId properties: a node that had pluginId i > k has i - 1,
\* one that had i < k keeps it, and the ids are exactly 0..count-1, each once
RemovePluginKeepsIdsDense ==
    [][\A k \in 0..(MaxNodes - 1) :
          PatchbayRemovePlugin(k)
          => LET left == PluginNodeIds(nodes')
             IN /\ left = PluginNodeIds(nodes) \ {plugins[k + 1].nodeId}
                /\ \A n \in left :
                      nodes'[n].pluginId = IF nodes[n].pluginId > k
                                           THEN nodes[n].pluginId - 1
                                           ELSE nodes[n].pluginId
                /\ {nodes'[n].pluginId : n \in left} = 0..(Cardinality(left) - 1)
                /\ \A n, m \in left : nodes'[n].pluginId = nodes'[m].pluginId => n = m]_vars

\* the first of two plugins was removed: the node of the second now has id 0
LaterPluginRenumbered ==
    /\ lastOp.op = "removePlugin"
    /\ Len(plugins) = 1
    /\ plugins[1].nodeId > lastOp.id
    /\ nodes[plugins[1].nodeId].pluginId = 0

(***************************************************************************)
(* The MIDI output port list between the audio thread and a control thread *)
(***************************************************************************)
\* what graph.process may have left in events.out when the emit begins
EmitEventLists == {<<>>, <<"ctl">>, <<"ctl", "ctl">>}

\* audioDeviceIOCallback up to the end of graph.process: events.out is ready;
\* the stream is stopped by close() before anything else
EmitBegin ==
    /\ isRack
    /\ blockPc = "idle"
    /\ ctlPc.op \notin {"close", "closed"}
    /\ eventsOut' \in EmitEventLists
    /\ blockPc' = "midiout_lock"
    /\ UNCHANGED <<topoVars, deviceIn, deviceOut, rackPlugins, eventsIn, peaks, rtVars>>

\* an emit that walks fMidiOuts without taking fMidiOutMutex
EmitLockNoWait ==
    /\ blockPc = "midiout_lock"
    /\ blockPc' = "midiout_send"
    /\ UNCHANGED <<topoVars, deviceIn, deviceOut, rackPlugins, eventsIn, eventsOut,
                   peaks, rtVars>>

\* fMidiOutMutex.lock() of the callback: blocks until the mutex is free
EmitLock ==
    /\ blockPc = "midiout_lock"
    /\ midiOutMutex = "free"
    /\ midiOutMutex' = "audio"
    /\ blockPc' = "midiout_send"
    /\ UNCHANGED <<topoVars, deviceIn, deviceOut, rackPlugins, eventsIn, eventsOut,
                   peaks, fIsReady, audioBufs, bufsTorn, dataPending, stagingMutex,
                   audioMutex, timeFrame, produced, ctlPc, skippedWith>>

\* the walk over events.out and, for each event, over fMidiOuts
\* (sendMessageNow on every open port), then fMidiOutMutex.unlock()
EmitSend ==
    /\ blockPc = "midiout_send"
    /\ midiOutMutex' = "free"
    /\ blockPc' = "idle"
    /\ UNCHANGED <<topoVars, deviceIn, deviceOut, rackPlugins, eventsIn, eventsOut,
                   peaks, fIsReady, audioBufs, bufsTorn, dataPending, stagingMutex,
                   audioMutex, timeFrame, produced, ctlPc, skippedWith>>

\* patchbayRefreshRack up to fMidiOutMutex.lock(): the device lists were read
CtlRefreshLock(devs) ==
    /\ ctlPc = NoCall
    /\ ENABLED PatchbayRefreshRack(FALSE, devs)
    /\ midiOutMutex = "free"
    /\ midiOutMutex' = "control"
    /\ ctlPc' = [op |-> "refresh", args |-> <<devs>>]
    /\ UNCHANGED <<topoVars, blockVars, fIsReady, audioBufs, bufsTorn, dataPending,
                   stagingMutex, audioMutex, timeFrame, produced, skippedWith>>

\* patchbayRefreshRack under the lock: fMidiOuts is walked for the last
\* registry entries and the mutex is released
CtlRefreshWalk ==
    /\ ctlPc.op = "refresh"
    /\ PatchbayRefreshRack(FALSE, ctlPc.args[1])
    /\ midiOutMutex' = "free"
    /\ ctlPc' = NoCall
    /\ UNCHANGED <<blockVars, fIsReady, audioBufs, bufsTorn, dataPending,
                   stagingMutex, audioMutex, timeFrame, produced, skippedWith>>

\* close() up to fMidiOutMutex.lock(): the stream is stopped (the callback in
\* flight has returned), the graph destroyed with its tables and registry,
\* the MIDI inputs stopped and deleted
CtlCloseLock ==
    /\ isRack
    /\ ctlPc = NoCall
    /\ blockPc = "idle"
    /\ midiOutMutex = "free"
    /\ midiOutMutex' = "control"
    /\ ctlPc' = [op |-> "close", args |-> <<>>]
    /\ fIsReady' = FALSE
    /\ audioBufs' = "none"
    /\ connList' = <<>> /\ lastId' = 0
    /\ connectedIn1' = <<>> /\ connectedIn2' = <<>>
    /\ connectedOut1' = <<>> /\ connectedOut2' = <<>>
    /\ midiIns' = <<>> /\ midiOuts' = <<>>
    /\ fMidiIns' = <<>>
    /\ dataPending' = <<>>
    /\ UNCHANGED <<isRack, fMidiOuts, obsVars, pbVars, blockVars, bufsTorn,
                   stagingMutex, audioMutex, timeFrame, produced, skippedWith>>

\* close() under the lock: every MIDI output is stopped and deleted, the
\* list cleared and the mutex released
CtlCloseClear ==
    /\ ctlPc.op = "close"
    /\ fMidiOuts' = <<>>
    /\ midiOutMutex' = "free"
    /\ ctlPc' = [op |-> "closed", args |-> <<>>]
    /\ lastOp' = OpRec("close", TRUE, 0, FALSE, "")
    /\ UNCHANGED <<isRack, regVars, connectedIn1, connectedIn2, connectedOut1,
                   connectedOut2, midiIns, midiOuts, fMidiIns, callbacks, issued,
                   plainSeq, pbVars, blockVars, fIsReady, audioBufs, bufsTorn,
                   dataPending, stagingMutex, audioMutex, timeFrame, produced,
                   skippedWith>>

InitMidiOut ==
    /\ RackAfterInit
    /\ BlockIdle
    /\ RtIdle

NextMidiOut ==
    \/ EmitBegin
    \/ EmitLock
    \/ EmitSend
    \/ \E a \in RTConnectArgs : CtlConnectLock(a)
    \/ CtlConnectSwitch
    \/ CtlConnectDone
    \/ \E id \in 1..MaxId : CtlDisconnectLock(id)
    \/ CtlDisconnectSwitch
    \/ CtlDisconnectDone
    \/ \E devs \in DeviceLists : CtlRefreshLock(devs)
    \/ CtlRefreshWalk
    \/ CtlCloseLock
    \/ CtlCloseClear

SpecMidiOut == InitMidiOut /\ [][NextMidiOut]_vars

\* C38: the MIDI output list is read and changed only by the holder of
\* fMidiOutMutex: the audio thread walks it holding the mutex, a control
\* thread changes it (connect, disconnect, close) or walks it (refresh)
\* holding the mutex, and the list does not change while the audio thread
\* is sending, so the audio thread never sends to a port that was deleted
MidiOutListOnlyUnderMutex ==
    [][/\ blockPc = "midiout_send" => midiOutMutex = "audio"
       /\ ctlPc.op = "refresh" => midiOutMutex = "control"
       /\ fMidiOuts' # fMidiOuts => midiOutMutex = "control"
       /\ blockPc = "midiout_send" => fMidiOuts' = fMidiOuts]_vars

\* the audio thread has events to send to an open port and waits at the lock
\* while a disconnect of that port holds the mutex
EmitWaitsForDisconnect ==
    /\ blockPc = "midiout_lock"
    /\ Len(eventsOut) > 0
    /\ Len(fMidiOuts) > 0
    /\ ctlPc.op = "disconnect"
    /\ midiOutMutex = "control"

(***************************************************************************)
(* Two control threads in RackGraph::connect at once                       *)
(***************************************************************************)
\* a control thread: where it is in connect, its endpoints, the value of
\* lastId it loaded, the id of its ConnectionToId and the registry list as
\* it found it when its append began
ThreadIdle == [pc |-> "idle", a |-> <<>>, reg |-> 0, id |-> 0, snap |-> <<>>]

Threads == {1, 2}

\* RackGraph::connect up to the end of the switch: the port goes into its
\* vector or list under the mutex of that vector or list
ThreadConnectSwitch(t, a) ==
    /\ isRack
    /\ ctlPc.args[t].pc = "idle"
    /\ \A u \in Threads : ctlPc.args[u].a # a
    /\ audioMutex = "free" /\ midiOutMutex = "free"
    /\ LET s == RackSplit(a[1][1], a[1][2], a[2][1], a[2][2])
           m == RackMakeConnection(s.carlaPort, s.otherPort)
       IN /\ SetRackState(m.st)
          /\ ctlPc' = [ctlPc EXCEPT !.args[t] =
                          [ThreadIdle EXCEPT !.pc = IF m.ok THEN "made" ELSE "failed",
                                             !.a = a]]
    /\ UNCHANGED <<isRack, regVars, midiIns, midiOuts, obsVars, pbVars, blockVars,
                   fIsReady, audioBufs, bufsTorn, dataPending, stagingMutex,
                   audioMutex, midiOutMutex, timeFrame, produced, skippedWith>>

\* ++connections.lastId, first half: the load of lastId
ThreadLoadLastId(t) ==
    /\ ctlPc.args[t].pc = "made"
    /\ ctlPc' = [ctlPc EXCEPT !.args[t].pc = "loaded", !.args[t].reg = lastId]
    /\ UNCHANGED <<topoVars, blockVars, fIsReady, audioBufs, bufsTorn, dataPending,
                   stagingMutex, audioMutex, midiOutMutex, timeFrame, produced,
                   skippedWith>>

\* ++connections.lastId, second half: the store of the loaded value plus one;
\* setData with it, and the ConnectionAdded callback
ThreadStoreLastId(t) ==
    /\ ctlPc.args[t].pc = "loaded"
    /\ LET a == ctlPc.args[t].a
           id == NextId(ctlPc.args[t].reg)
       IN /\ lastId' = id
          /\ ctlPc' = [ctlPc EXCEPT !.args[t].pc = "stored", !.args[t].id = id]
          /\ callbacks' = Append(callbacks, CbConnAdded(id, a[1][1], a[1][2], a[2][1], a[2][2]))
          /\ issued' = Append(issued, id)
    /\ UNCHANGED <<isRack, connList, rackVars, lastOp, plainSeq, pbVars, blockVars,
                   fIsReady, audioBufs, bufsTorn, dataPending, stagingMutex,
                   audioMutex, midiOutMutex, timeFrame, produced, skippedWith>>

\* connections.list.append, first half: the list is read to find its end
ThreadAppendRead(t) ==
    /\ ctlPc.args[t].pc = "stored"
    /\ ctlPc' = [ctlPc EXCEPT !.args[t].pc = "read", !.args[t].snap = connList]
    /\ UNCHANGED <<topoVars, blockVars, fIsReady, audioBufs, bufsTorn, dataPending,
                   stagingMutex, audioMutex, midiOutMutex, timeFrame, produced,
                   skippedWith>>

\* connections.list.append, second half: the entry is linked behind the end
\* that was found; connect returns true
ThreadAppendWrite(t) ==
    /\ ctlPc.args[t].pc = "read"
    /\ LET a == ctlPc.args[t].a
           id == ctlPc.args[t].id
       IN /\ connList' = Append(ctlPc.args[t].snap,
                                ConnectionToId(id, a[1][1], a[1][2], a[2][1], a[2][2]))
          /\ lastOp' = OpRec("connect", TRUE, id, FALSE, "")
    /\ ctlPc' = [ctlPc EXCEPT !.args[t].pc = "done"]
    /\ UNCHANGED <<isRack, lastId, rackVars, callbacks, issued, plainSeq, pbVars,
                   blockVars, fIsReady, audioBufs, bufsTorn, dataPending, stagingMutex,
                   audioMutex, midiOutMutex, timeFrame, produced, skippedWith>>

InitThreads ==
    /\ RackAfterInit
    /\ BlockIdle
    /\ fIsReady = TRUE
    /\ audioBufs = "allocated"
    /\ bufsTorn = FALSE
    /\ dataPending = <<>>
    /\ stagingMutex = "free"
    /\ audioMutex = "free"
    /\ midiOutMutex = "free"
    /\ timeFrame = 0
    /\ produced = 0
    /\ ctlPc = [op |-> "connect", args |-> <<ThreadIdle, ThreadIdle>>]
    /\ skippedWith = {}

NextThreads ==
    \/ \E t \in Threads, a \in RTConnectArgs : ThreadConnectSwitch(t, a)
    \/ \E t \in Threads : ThreadLoadLastId(t)
    \/ \E t \in Threads : ThreadStoreLastId(t)
    \/ \E t \in Threads : ThreadAppendRead(t)
    \/ \E t \in Threads : ThreadAppendWrite(t)

SpecThreads == InitThreads /\ [][NextThreads]_vars

\* C39: when two control threads have each returned true from a connect of
\* different valid endpoints, the two calls got different ids, lastId counts
\* both, and the registry holds an entry for each with no id twice
ConcurrentConnectsBothRegistered ==
    (\A t \in Threads : ctlPc.args[t].pc = "done")
    => /\ ctlPc.args[1].id # ctlPc.args[2].id
       /\ lastId = 2
       /\ Len(connList) = 2
       /\ \A t \in Threads : \E k \in 1..Len(connList) :
             /\ connList[k].id = ctlPc.args[t].id
             /\ <<connList[k].groupA, connList[k].portA>> = ctlPc.args[t].a[1]
       /\ \A j, k \in 1..Len(connList) : connList[j].id = connList[k].id => j = k

\* a MIDI port table with one entry per port: ids 1..n, each once, no name twice
OneEntryPerPort(table, devices) ==
    /\ Len(table) <= Len(devices)
    /\ {table[k].port : k \in 1..Len(table)} = 1..Len(table)
    /\ \A j, k \in 1..Len(table) :
          (table[j].port = table[k].port \/ table[j].name = table[k].name) => j = k

\* C40: after a patchbayRefresh of the rack, midi.ins and midi.outs hold one
\* PortNameToId per device MIDI port, with ids 1..n each once and no name
\* twice: a refresh after the one of init does not grow the tables
RefreshKeepsOneEntryPerPort ==
    (isRack /\ lastOp.op = "refresh")
    => /\ OneEntryPerPort(midiIns, MidiInDevices)
       /\ OneEntryPerPort(midiOuts, MidiOutDevices)

====
